---- MODULE Spec2Model ----
(***************************************************************************)
(* A model of the archetype storage, the borrow counters, the fetch        *)
(* protocol and the access conflict analysis of bevy_ecs / bevy_hecs.      *)
(*                                                                         *)
(* Vectors are sequences; the code's row indices are 0-based, so row i of  *)
(* a vector s is s[i + 1].  Option<T> is a record [some, v].               *)
(***************************************************************************)
EXTENDS Integers, Sequences, FiniteSets, TLC

\* ------------------------------------------------------------------ bounds

\* The entity handles the external allocator hands out are 1..MaxEntities.
MaxEntities == 2

\* No flag array (added_entities / mutated_entities) grows beyond MaxRows.
MaxRows == 3

\* The callers that acquire and release borrows of storages are 1..NumHolders.
NumHolders == 2

\* An iterator that has returned None is called at most MaxNones times in all
\* after its last item.
MaxNones == 2

\* The worlds batched iteration runs over have at most MaxBatchRows rows in all,
\* and the batch sizes asked for are 1..MaxBatchSize.
MaxBatchRows == 3

MaxBatchSize == 3

\* ------------------------------------------------------------- the world

\* The component types, and the archetypes a world creates, in creation order,
\* each with its type_info in order.
Types == {"X", "Y", "Z"}

type_info == [a \in 0..2 |-> CASE a = 0 -> <<"X", "Y">> [] a = 1 -> <<"Y", "Z">> [] OTHER -> <<"X">>]

\* The archetypes whose rows the storage operations act on.
Archetypes == 0..1

\* Every archetype the world can hold.
AllArchetypes == DOMAIN type_info

Holders == 1..NumHolders

\* The work units (systems) whose queries run side by side.
Units == 1..2

Entities == 1..MaxEntities

\* The type tags of archetype a (the keys of its type_indices map).
TypesOf(a) == {type_info[a][k] : k \in 1..Len(type_info[a])}

\* Archetype::has_type
has_type(a, ty) == ty \in TypesOf(a)

None == [some |-> FALSE, v |-> 0]

Some(x) == [some |-> TRUE, v |-> x]

\* The value a caller inserts for component ty of entity e: a tag of its own.
NewValue(e, ty) == e * 10 + (CASE ty = "X" -> 1 [] ty = "Y" -> 2 [] OTHER -> 3)

VARIABLES
    entities,          \* Archetype.entities, per archetype
    storage,           \* VecComponentStorage.storage, per archetype and type
    added_entities,    \* ComponentStorageMeta.added_entities, per archetype and type
    mutated_entities,  \* ComponentStorageMeta.mutated_entities, per archetype and type
    pending,           \* the caller's position: the columns of the row being completed
    mutref,            \* the Mut<T> the caller holds, if any: [some, a, ty, index]
    location,          \* the Location record the last operation was handed, if it was move_to
    ret,               \* what the last operation did and returned
    dropped,           \* the destructor runs of the last operation, in order
    panicked,          \* a fatal failure has ended the program
    borrow,            \* ComponentStorageMeta.borrow, per archetype and type
    holder,            \* per holder: the borrow it holds or failed to get
    world_len,         \* world.archetypes().len()
    access,            \* per unit: its ArchetypeAccess, two bit sets
    unit,              \* per unit: its query and its position in borrow / iterate / release
    qiter,             \* the QueryIter the caller drives, if any: its query, position, returns
    yielded,           \* the items the QueryIter has returned, in order, each with its row
    biter,             \* the BatchedIter / ParIter the caller drives, if any
    batches,           \* the batches the BatchedIter has returned, in order
    handle,            \* the borrow handle the caller holds, if any, and its borrowed flag
    hlog,              \* the counter operations the handle's calls have made, in order
    diter,             \* the DynamicQueryIter the caller drives, if any, and what it returned
    dynamic_components,  \* DynamicComponentInfoRegistry.dynamic_components: id -> info, if any
    reg_lock,          \* the thread that holds the registry's mutex, 0 if none
    reg_thread,        \* per thread: the registry call it is in, and its last result
    reg_log,           \* the registry calls that have returned, in order, with their results
    soa_world,         \* a World receiving batches: archetypes, index, entities, generation
    soa_ret            \* what the last batch spawn was given and did

vars == <<entities, storage, added_entities, mutated_entities, pending, mutref,
          location, ret, dropped, panicked, borrow, holder, world_len, access, unit,
          qiter, yielded, biter, batches, handle, hlog, diter,
          dynamic_components, reg_lock, reg_thread, reg_log, soa_world, soa_ret>>

\* The world the batches are spawned into, and the last spawn.
soaVars == <<soa_world, soa_ret>>

\* The component info registry and its callers.
regVars == <<dynamic_components, reg_lock, reg_thread, reg_log>>

\* The borrow handle, what it has done, and the iterator made from it.
handleVars == <<handle, hlog, diter>>

\* What the storage operations leave alone.
others == <<borrow, holder, world_len, access, unit, qiter, yielded, biter, batches,
            handleVars, regVars, soaVars>>

\* What the handles and the dynamic iterator leave alone of the storages, the
\* static iterators and the registry.
storageVars1 == <<entities, storage, added_entities, mutated_entities, pending, mutref,
                  location, dropped, qiter, yielded, biter, batches, regVars, soaVars>>

\* The same and the dynamic iterator: what the static handles leave alone.
storageVars0 == <<storageVars1, diter>>

\* What the borrow, access and unit steps leave alone.
storageVars == <<entities, storage, added_entities, mutated_entities, pending, mutref,
                 location, dropped, qiter, yielded, biter, batches, handleVars, regVars,
                 soaVars>>

NoPending == [a |-> 0, types |-> {}]

NoMut == [some |-> FALSE, a |-> 0, ty |-> "X", index |-> 0]

NoRet == [op |-> "none", r |-> None]

NoLocation == [archetype |-> 0, index |-> 0]

NoHolder == [st |-> "none", a |-> 0, ty |-> "X", want |-> "none"]

NoQuery == [k |-> "Entity", ty |-> "", qs |-> <<>>]

NoUnit == [q |-> NoQuery, pc |-> "idle", pos |-> 0]

NoFetch == [a |-> 0, ptr |-> <<>>]

NoChunk == [some |-> FALSE, a |-> 0, row |-> 0, len |-> 0, f |-> NoFetch]

\* No QueryIter and no BatchedIter has been created.
NoQueryIter ==
    [on |-> FALSE, q |-> NoQuery, it |-> [archetype_index |-> 0, iter |-> NoChunk], nones |-> 0]

NoBatchedIter ==
    [on |-> FALSE, q |-> NoQuery, batch_size |-> 0, archetype_index |-> 0, batch |-> 0, nones |-> 0]

\* No borrow handle has been constructed.
NoHandle ==
    [kind |-> "none", q |-> NoQuery, a |-> 0, index |-> 0, borrowed |-> FALSE, st |-> "none",
     calls |-> 0, base |-> <<>>, n |-> 0]

\* The external component ids and the layouts (sizes) of the example and test.
ExternalIds == {1, 2}

Layouts == {4, 16}

\* The threads that call the registry.
NumThreads == 2

RegThreads == 1..NumThreads

\* The registry calls one run makes.
MaxRegCalls == 3

NoCall == [pc |-> "idle", op |-> "none", id |-> 1, layout |-> 4, r |-> None]

\* A World that has spawned nothing: no archetype, an empty index, no entity.
NoArchetypes == [archetypes |-> <<>>, index |-> {}, entities |-> 0, archetype_generation |-> 0]

\* No batch has been spawned.
NoSpawn ==
    [op |-> "none", items |-> <<>>, lens |-> <<>>, panic |-> FALSE, created |-> FALSE,
     archetype_id |-> 0, start_index |-> 0, entity_count |-> 0, overrun |-> FALSE,
     n |-> 0]

NoDynamicChunk == [some |-> FALSE, a |-> 0, position |-> 0, len |-> 0, f |-> <<>>]

\* No DynamicQueryIter has been created.
NoDynamicIter ==
    [on |-> FALSE, it |-> [archetype_index |-> 0, iter |-> NoDynamicChunk], yielded |-> <<>>,
     nones |-> 0]

NoIteration ==
    /\ qiter = NoQueryIter
    /\ yielded = <<>>
    /\ biter = NoBatchedIter
    /\ batches = <<>>
    /\ handle = NoHandle
    /\ hlog = <<>>
    /\ diter = NoDynamicIter
    /\ dynamic_components = [id \in ExternalIds |-> None]
    /\ reg_lock = 0
    /\ reg_thread = [t \in RegThreads |-> NoCall]
    /\ reg_log = <<>>
    /\ soa_world = NoArchetypes
    /\ soa_ret = NoSpawn

\* ArchetypeAccess::default(): two empty bit sets.
DefaultAccess == [accessed |-> <<>>, mutable |-> <<>>]

\* Vec::swap_remove(i): the last element takes the place of element i.
SwapRemove(s, i) ==
    [k \in 1..(Len(s) - 1) |-> IF k = i + 1 THEN s[Len(s)] ELSE s[k]]

\* Archetype::len
len(a) == Len(entities[a])

\* No operation is in the middle of completing a row or holding a reference.
Idle == pending.types = {} /\ ~mutref.some /\ ~panicked

\* Every entity is in at most one archetype: the allocator's guarantee.
Placed == UNION {{entities[a][k] : k \in 1..Len(entities[a])} : a \in Archetypes}

\* Empty archetypes, no borrow held, no operation under way.
InitStorage ==
    /\ entities = [a \in Archetypes |-> <<>>]
    /\ storage = [a \in Archetypes |-> [ty \in TypesOf(a) |-> <<>>]]
    /\ added_entities = [a \in Archetypes |-> [ty \in TypesOf(a) |-> <<>>]]
    /\ mutated_entities = [a \in Archetypes |-> [ty \in TypesOf(a) |-> <<>>]]
    /\ pending = NoPending
    /\ mutref = NoMut
    /\ location = NoLocation
    /\ ret = NoRet
    /\ dropped = <<>>
    /\ panicked = FALSE
    /\ borrow = [a \in AllArchetypes |-> [ty \in TypesOf(a) |-> 0]]
    /\ holder = [h \in Holders |-> NoHolder]
    /\ NoIteration

Init ==
    /\ InitStorage
    /\ world_len = 2
    /\ access = [u \in Units |-> DefaultAccess]
    /\ unit = [u \in Units |-> NoUnit]

\* ComponentStorageMeta::allocate on every storage of archetype a.
MetaAllocate(flags, a) == [flags EXCEPT ![a] = [ty \in TypesOf(a) |-> Append(@[ty], FALSE)]]

allocate_index_off(a) == len(a) + 1

\* What Archetype::allocate returns: self.len() - 1 after the push.
allocate_index(a) == len(a)

\* Archetype::allocate(entity): the new row's index; the caller then inserts
\* one value per column.  The allocator hands out the lowest free handle.
Archetype_allocate(a, e) ==
    /\ Idle
    /\ e \notin Placed
    /\ \A f \in Entities \ Placed : e <= f
    /\ \A ty \in TypesOf(a) : Len(added_entities[a][ty]) < MaxRows
    /\ entities' = [entities EXCEPT ![a] = Append(@, e)]
    /\ added_entities' = MetaAllocate(added_entities, a)
    /\ mutated_entities' = MetaAllocate(mutated_entities, a)
    /\ pending' = [a |-> a, types |-> TypesOf(a)]
    /\ ret' = [op |-> "allocate", r |-> Some(allocate_index(a))]
    /\ dropped' = <<>>
    /\ location' = NoLocation
    /\ UNCHANGED <<others, storage, mutref, panicked>>

\* VecComponentStorage::push
push(st, a, ty, value) == [st EXCEPT ![a][ty] = Append(@, value)]

\* Archetype::insert / insert_dynamic: the value goes to the end of ty's storage.
Archetype_insert(ty) ==
    /\ ~panicked
    /\ ty \in pending.types
    /\ LET a == pending.a
           e == entities[a][Len(entities[a])]
       IN  storage' = push(storage, a, ty, NewValue(e, ty))
    /\ pending' = [pending EXCEPT !.types = @ \ {ty}]
    /\ UNCHANGED <<others, entities, added_entities, mutated_entities, mutref, location, ret,
                   dropped, panicked>>

\* The destructor runs of swap_remove(index, forget) on ty's storage: the removed
\* value is dropped unless it is forgotten.
swap_remove_drops(a, ty, index, forget) ==
    IF forget THEN <<>> ELSE <<[ty |-> ty, v |-> storage[a][ty][index + 1]]>>

\* The concatenation of the sequences f[1], ..., f[n].
RECURSIVE Concat(_, _)
Concat(f, n) == IF n = 0 THEN <<>> ELSE Concat(f, n - 1) \o f[n]

\* The tail of remove and move_to: the entity leaves row index, and the entity
\* moved into its place, if any, is returned.
RemoveEntity(a, index) ==
    IF Len(entities[a]) - 1 = index
    THEN [entities EXCEPT ![a] = SubSeq(@, 1, Len(@) - 1)]
    ELSE [entities EXCEPT ![a] = SwapRemove(@, index)]

RemoveResult_removed(a, index) ==
    IF Len(entities[a]) - 1 = index THEN None ELSE Some(entities[a][index + 1])

RemoveResult(a, index) ==
    IF Len(entities[a]) - 1 = index THEN None ELSE Some(entities[a][Len(entities[a])])

\* The flag arrays of archetype a after remove(index): swap_remove on each.
RemoveFlags(flags, a, index) ==
    [flags EXCEPT ![a] = [ty \in TypesOf(a) |-> SwapRemove(@[ty], index)]]

\* Archetype::remove(index): panics out of bounds; otherwise every storage and
\* flag array swap-removes the row and the values are dropped.
Archetype_remove(a, index) ==
    /\ Idle
    /\ IF index >= len(a)
       THEN /\ panicked' = TRUE
            /\ ret' = [op |-> "panic", r |-> None]
            /\ dropped' = <<>>
            /\ location' = NoLocation
            /\ UNCHANGED <<others, entities, storage, added_entities, mutated_entities, pending,
                           mutref>>
       ELSE /\ storage' = [storage EXCEPT ![a] = [ty \in TypesOf(a) |-> SwapRemove(@[ty], index)]]
            /\ dropped' = Concat([k \in 1..Len(type_info[a]) |->
                                     swap_remove_drops(a, type_info[a][k], index, FALSE)],
                                 Len(type_info[a]))
            /\ added_entities' = RemoveFlags(added_entities, a, index)
            /\ mutated_entities' = RemoveFlags(mutated_entities, a, index)
            /\ entities' = RemoveEntity(a, index)
            /\ ret' = [op |-> "remove", r |-> RemoveResult(a, index)]
            /\ location' = NoLocation
            /\ UNCHANGED <<others, pending, mutref, panicked>>

MoveStorages_last(a, index, b) ==
    [x \in Archetypes |->
        IF x = a THEN [ty \in TypesOf(a) |-> SwapRemove(storage[a][ty], index)]
        ELSE IF x = b THEN [ty \in TypesOf(b) |->
                 IF has_type(a, ty) THEN Append(storage[b][ty], storage[a][ty][Len(storage[a][ty])])
                 ELSE storage[b][ty]]
        ELSE storage[x]]

\* The storages after move_to's loop: a value whose type the target has is
\* pushed there; every source storage swap-removes the row.
MoveStorages(a, index, b) ==
    [x \in Archetypes |->
        IF x = a THEN [ty \in TypesOf(a) |-> SwapRemove(storage[a][ty], index)]
        ELSE IF x = b THEN [ty \in TypesOf(b) |->
                 IF has_type(a, ty) THEN Append(storage[b][ty], storage[a][ty][index + 1])
                 ELSE storage[b][ty]]
        ELSE storage[x]]

MoveForget_flag_only(a, ty, b, drop_unused) == ~drop_unused

\* Whether move_to forgets (does not drop) the value of ty it removes from a.
MoveForget(a, ty, b, drop_unused) == IF has_type(b, ty) THEN TRUE ELSE ~drop_unused

\* The flag arrays of the source archetype after move_to.
MoveSourceFlags(flags, a, index) == flags

\* Archetype::move_to(location, archetype, drop_unused) on the row location.index
\* of archetype a, with target b.
Archetype_move_to(a, index, b, drop_unused) ==
    /\ Idle
    /\ a # b
    /\ \A ty \in TypesOf(b) : Len(added_entities[b][ty]) < MaxRows
    /\ IF index >= len(a)
       THEN /\ panicked' = TRUE
            /\ ret' = [op |-> "panic", r |-> None]
            /\ dropped' = <<>>
            /\ location' = NoLocation
            /\ UNCHANGED <<others, entities, storage, added_entities, mutated_entities, pending,
                           mutref>>
       ELSE /\ entities' = [RemoveEntity(a, index) EXCEPT ![b] = Append(@, entities[a][index + 1])]
            /\ added_entities' = MetaAllocate(MoveSourceFlags(added_entities, a, index), b)
            /\ mutated_entities' = MetaAllocate(MoveSourceFlags(mutated_entities, a, index), b)
            /\ location' = [archetype |-> a, index |-> allocate_index(b)]
            /\ storage' = MoveStorages(a, index, b)
            /\ dropped' = Concat([k \in 1..Len(type_info[a]) |->
                                     swap_remove_drops(a, type_info[a][k], index,
                                         MoveForget(a, type_info[a][k], b, drop_unused))],
                                 Len(type_info[a]))
            /\ pending' = [a |-> b, types |-> TypesOf(b) \ TypesOf(a)]
            /\ ret' = [op |-> "move_to", r |-> RemoveResult(a, index)]
            /\ UNCHANGED <<others, mutref, panicked>>

ClearFlags_all_but_last(flags, a) ==
    [flags EXCEPT ![a] = [ty \in TypesOf(a) |->
        [k \in 1..Len(@[ty]) |-> IF k = Len(@[ty]) THEN @[ty][k] ELSE FALSE]]]

\* ComponentStorageMeta::clear_trackers on every storage of archetype a.
ClearFlags(flags, a) ==
    [flags EXCEPT ![a] = [ty \in TypesOf(a) |-> [k \in 1..Len(@[ty]) |-> FALSE]]]

\* Archetype::clear_trackers
Archetype_clear_trackers(a) ==
    /\ Idle
    /\ added_entities' = ClearFlags(added_entities, a)
    /\ mutated_entities' = ClearFlags(mutated_entities, a)
    /\ ret' = [op |-> "clear_trackers", r |-> None]
    /\ dropped' = <<>>
    /\ location' = NoLocation
    /\ UNCHANGED <<others, entities, storage, pending, mutref, panicked>>

\* FetchMut::get(archetype, index) followed by next, or Mut::new(archetype, index):
\* a Mut pointing at row index of ty's storage and of its mutated flags.
FetchMut_next(a, ty, index) ==
    /\ Idle
    /\ has_type(a, ty)
    /\ index < len(a)
    /\ mutref' = [some |-> TRUE, a |-> a, ty |-> ty, index |-> index]
    /\ ret' = [op |-> "fetch_mut", r |-> None]
    /\ dropped' = <<>>
    /\ location' = NoLocation
    /\ UNCHANGED <<others, entities, storage, added_entities, mutated_entities, pending, panicked>>

\* Mut::deref: the value is read.
Mut_deref ==
    /\ mutref.some /\ ~panicked
    /\ ret' = [op |-> "deref", r |-> Some(storage[mutref.a][mutref.ty][mutref.index + 1])]
    /\ UNCHANGED <<others, entities, storage, added_entities, mutated_entities, pending, mutref,
                   location, dropped, panicked>>

deref_mut_flags_column(m) ==
    [mutated_entities EXCEPT ![m.a][m.ty] = [k \in 1..Len(@) |-> TRUE]]

\* The mutated flags after Mut::deref_mut on the reference m.
deref_mut_flags(m) == [mutated_entities EXCEPT ![m.a][m.ty][m.index + 1] = TRUE]

\* Mut::deref_mut
Mut_deref_mut ==
    /\ mutref.some /\ ~panicked
    /\ mutated_entities' = deref_mut_flags(mutref)
    /\ ret' = [op |-> "deref_mut", r |-> None]
    /\ UNCHANGED <<others, entities, storage, added_entities, pending, mutref, location, dropped,
                   panicked>>

\* The Mut goes out of scope.
Mut_drop ==
    /\ mutref.some /\ ~panicked
    /\ mutref' = NoMut
    /\ UNCHANGED <<others, entities, storage, added_entities, mutated_entities, pending, location,
                   ret, dropped, panicked>>

\* A caller's write to one component: the Mut is fetched, written through
\* (deref_mut) and dropped.
Mut_write(a, ty, index) ==
    /\ Idle
    /\ has_type(a, ty)
    /\ index < len(a)
    /\ mutated_entities' = deref_mut_flags([some |-> TRUE, a |-> a, ty |-> ty, index |-> index])
    /\ ret' = [op |-> "write", r |-> None]
    /\ dropped' = <<>>
    /\ location' = NoLocation
    /\ UNCHANGED <<others, entities, storage, added_entities, pending, mutref, panicked>>

Next ==
    \/ \E a \in Archetypes, e \in Entities : Archetype_allocate(a, e)
    \/ \E ty \in Types : Archetype_insert(ty)
    \/ \E a \in Archetypes, index \in 0..MaxRows : Archetype_remove(a, index)
    \/ \E a, b \in Archetypes, index \in 0..MaxRows, drop_unused \in BOOLEAN :
           Archetype_move_to(a, index, b, drop_unused)
    \/ \E a \in Archetypes : Archetype_clear_trackers(a)
    \/ \E a \in Archetypes, ty \in Types, index \in 0..MaxRows :
           Mut_write(a, ty, index)

Spec == Init /\ [][Next]_vars

\* The reference-level steps of a mutable fetch, on rows built by allocate and insert.
NextMut ==
    \/ \E a \in Archetypes, e \in Entities : Archetype_allocate(a, e)
    \/ \E ty \in Types : Archetype_insert(ty)
    \/ \E a \in Archetypes : Archetype_clear_trackers(a)
    \/ \E a \in Archetypes, ty \in Types, index \in 0..MaxRows :
           FetchMut_next(a, ty, index)
    \/ Mut_deref
    \/ Mut_deref_mut
    \/ Mut_drop

SpecMut == Init /\ [][NextMut]_vars

\* -------------------------------------------------------- borrow counters

\* AtomicBorrow::borrow on a counter c: a shared borrow is refused while the
\* counter is negative (an exclusive borrow is held), else the counter goes up.
AtomicBorrow_borrow(c) == IF c < 0 THEN [ok |-> FALSE, c |-> c] ELSE [ok |-> TRUE, c |-> c + 1]

\* AtomicBorrow::borrow_mut: an exclusive borrow is refused unless the counter
\* is 0 (free), else the counter becomes -1.
AtomicBorrow_borrow_mut(c) == IF c # 0 THEN [ok |-> FALSE, c |-> c] ELSE [ok |-> TRUE, c |-> 0 - 1]

\* AtomicBorrow::release: one reader less.
AtomicBorrow_release(c) == c - 1

\* AtomicBorrow::release_mut: free again.
AtomicBorrow_release_mut(c) == 0

\* ComponentStorageMeta::borrow
ComponentStorageMeta_borrow(c) == AtomicBorrow_borrow(c)

ComponentStorageMeta_borrow_mut_shared(c) == AtomicBorrow_borrow(c)

\* ComponentStorageMeta::borrow_mut
ComponentStorageMeta_borrow_mut(c) == AtomicBorrow_borrow_mut(c)

\* ComponentStorageMeta::release
ComponentStorageMeta_release(c) == AtomicBorrow_release(c)

\* ComponentStorageMeta::release_mut
ComponentStorageMeta_release_mut(c) == AtomicBorrow_release_mut(c)

\* A holder asks for a shared (want = "read") or exclusive (want = "write")
\* borrow of ty's storage of archetype a; a refused borrow is fatal to it.
Holder_acquire(h, a, ty, want) ==
    /\ holder[h].st = "none"
    /\ has_type(a, ty)
    /\ LET r == IF want = "read" THEN ComponentStorageMeta_borrow(borrow[a][ty])
                ELSE ComponentStorageMeta_borrow_mut(borrow[a][ty])
       IN  /\ borrow' = [borrow EXCEPT ![a][ty] = r.c]
           /\ holder' = [holder EXCEPT ![h] = [st |-> IF r.ok THEN want ELSE "panicked",
                                               a |-> a, ty |-> ty, want |-> want]]
    /\ UNCHANGED <<storageVars, ret, panicked, world_len, access, unit>>

\* A holder gives its borrow back, once.
Holder_release(h) ==
    /\ holder[h].st \in {"read", "write"}
    /\ borrow' = [borrow EXCEPT ![holder[h].a][holder[h].ty] =
                      IF holder[h].st = "read" THEN ComponentStorageMeta_release(@)
                      ELSE ComponentStorageMeta_release_mut(@)]
    /\ holder' = [holder EXCEPT ![h] = NoHolder]
    /\ UNCHANGED <<storageVars, ret, panicked, world_len, access, unit>>

NextBorrow ==
    \/ \E h \in Holders, a \in AllArchetypes, ty \in Types, want \in {"read", "write"} :
           Holder_acquire(h, a, ty, want)
    \/ \E h \in Holders : Holder_release(h)

SpecBorrow == Init /\ [][NextBorrow]_vars

\* The holders of a borrow of kind st on ty's storage of archetype a.
Holding(a, ty, st) == {h \in Holders : holder[h].st = st /\ holder[h].a = a /\ holder[h].ty = ty}

NoAccess == 0

Iterate == 1

Read == 2

Write == 3

Max(x, y) == IF x < y THEN y ELSE x

Min(x, y) == IF x < y THEN x ELSE y

\* The greatest element of a set of accesses.
Greatest(S) == CHOOSE x \in S : \A y \in S : y <= x

\* The query shapes: Entity, &T, &mut T (or Mut<T>), Mutated<T>, Added<T>,
\* Changed<T>, Option<Q>, With<T, Q>, Without<T, Q>, tuples and Or<(..)>.
Q_Entity == [k |-> "Entity", ty |-> "", qs |-> <<>>]

Q_Ref(ty) == [k |-> "Ref", ty |-> ty, qs |-> <<>>]

Q_Mut(ty) == [k |-> "Mut", ty |-> ty, qs |-> <<>>]

Q_Mutated(ty) == [k |-> "Mutated", ty |-> ty, qs |-> <<>>]

Q_Added(ty) == [k |-> "Added", ty |-> ty, qs |-> <<>>]

Q_Changed(ty) == [k |-> "Changed", ty |-> ty, qs |-> <<>>]

Q_Option(q) == [k |-> "Option", ty |-> "", qs |-> <<q>>]

Q_With(ty, q) == [k |-> "With", ty |-> ty, qs |-> <<q>>]

Q_Without(ty, q) == [k |-> "Without", ty |-> ty, qs |-> <<q>>]

Q_Tuple(qs) == [k |-> "Tuple", ty |-> "", qs |-> qs]

Q_Or(qs) == [k |-> "Or", ty |-> "", qs |-> qs]

\* The slots a DynamicComponentQuery of the model has.
MaxSlots == 2

\* The components a DynamicComponentQuery of the model names.
DynamicIds == {"X", "Z"}

\* DynamicComponentQuery: per slot, no entry or a component with the access
\* wanted for it.
DynamicComponentQueries ==
    [1..MaxSlots -> {None} \cup {Some([id |-> id, access |-> acc]) :
                                     id \in DynamicIds, acc \in {Iterate, Read, Write}}]

\* RuntimeQuery with the given DynamicComponentQuery as its state.
Q_Dynamic(state) == [k |-> "Dynamic", ty |-> "", qs |-> state]

\* Archetype::has_component(id)
has_component(a, id) == has_type(a, id)

\* Archetype::get_dynamic(id, size, offset): a pointer, if the archetype has the
\* component.
get_dynamic(a, id) == has_component(a, id)

\* DynamicFetch::access over the first n slots of the state: the greatest access
\* wanted for a component the archetype has, None if it has none of them.
RECURSIVE DynamicFetch_access(_, _, _)
DynamicFetch_access(state, a, n) ==
    IF n = 0 THEN NoAccess
    ELSE LET access_ == DynamicFetch_access(state, a, n - 1)
         IN IF state[n].some /\ has_component(a, state[n].v.id)
            THEN IF access_ = NoAccess THEN state[n].v.access
                 ELSE IF access_ < state[n].v.access THEN state[n].v.access ELSE access_
            ELSE access_

\* DynamicFetch::get: Some iff the archetype has one of the listed components.
DynamicFetch_get(state, a) ==
    \E n \in 1..Len(state) : state[n].some /\ get_dynamic(a, state[n].v.id)

TryFetch_access_inner(x) == x

\* TryFetch::access: Some(inner access .unwrap_or(Access::Iterate)).
TryFetch_access(x) == IF x = NoAccess THEN Iterate ELSE x

\* Fetch::access(archetype) of every Fetch implementation; TupleAccess and
\* OrAccess are the folds of the tuple and of the Or implementation over the
\* first n members.
RECURSIVE Fetch_access(_, _), TupleAccess(_, _, _), OrAccess(_, _, _)
Fetch_access(q, a) ==
    CASE q.k = "Entity" -> Iterate
      [] q.k = "Ref" -> IF has_type(a, q.ty) THEN Read ELSE NoAccess
      [] q.k = "Mut" -> IF has_type(a, q.ty) THEN Write ELSE NoAccess
      [] q.k \in {"Mutated", "Added", "Changed"} -> IF has_type(a, q.ty) THEN Read ELSE NoAccess
      [] q.k = "Option" -> TryFetch_access(Fetch_access(q.qs[1], a))
      [] q.k = "With" -> IF has_type(a, q.ty) THEN Fetch_access(q.qs[1], a) ELSE NoAccess
      [] q.k = "Without" -> IF has_type(a, q.ty) THEN NoAccess ELSE Fetch_access(q.qs[1], a)
      [] q.k = "Tuple" -> TupleAccess(q.qs, a, Len(q.qs))
      [] q.k = "Dynamic" -> DynamicFetch_access(q.qs, a, Len(q.qs))
      [] OTHER -> OrAccess(q.qs, a, Len(q.qs))

TupleAccess(qs, a, n) ==
    IF n = 0 THEN Iterate
    ELSE LET access_ == TupleAccess(qs, a, n - 1)
             x == Fetch_access(qs[n], a)
         IN  IF access_ = NoAccess \/ x = NoAccess THEN NoAccess ELSE Max(access_, x)

OrAccess(qs, a, n) ==
    IF n = 0 THEN NoAccess ELSE Max(OrAccess(qs, a, n - 1), Fetch_access(qs[n], a))

\* Archetype::borrow::<T> / borrow_mut::<T>: the counter operation on ty's
\* storage of archetype a, none if a has no such storage.
Archetype_borrow(a, ty, want) ==
    IF has_type(a, ty) THEN <<[a |-> a, ty |-> ty, want |-> want]>> ELSE <<>>

\* Fetch::borrow(archetype) of every Fetch implementation: the counter
\* operations it performs, in order.  Fetch::release performs the matching
\* releases in the same order.
RECURSIVE Fetch_borrow(_, _), MembersBorrow(_, _, _)
Fetch_borrow(q, a) ==
    CASE q.k = "Entity" -> <<>>
      [] q.k \in {"Ref", "Mutated", "Added", "Changed"} -> Archetype_borrow(a, q.ty, "read")
      [] q.k = "Mut" -> Archetype_borrow(a, q.ty, "write")
      [] q.k \in {"Option", "With", "Without"} -> Fetch_borrow(q.qs[1], a)
      [] OTHER -> MembersBorrow(q.qs, a, Len(q.qs))

MembersBorrow(qs, a, n) ==
    IF n = 0 THEN <<>> ELSE MembersBorrow(qs, a, n - 1) \o Fetch_borrow(qs[n], a)

\* ------------------------------------------------------- archetype access

\* FixedBitSet::grow(bits): never shrinks.
grow(b, bits) == IF bits > Len(b) THEN b \o [k \in 1..(bits - Len(b)) |-> FALSE] ELSE b

\* FixedBitSet::contains(bit): false beyond the length.
contains(b, bit) == bit < Len(b) /\ b[bit + 1]

\* FixedBitSet::ones(): the set bits, ascending.
RECURSIVE OnesUpTo(_, _)
OnesUpTo(b, n) == IF n = 0 THEN <<>> ELSE OnesUpTo(b, n - 1) \o (IF b[n] THEN <<n - 1>> ELSE <<>>)

ones(b) == OnesUpTo(b, Len(b))

\* FixedBitSet::is_disjoint: no common bit within the shorter of the two.
is_disjoint(x, y) == \A k \in 1..Min(Len(x), Len(y)) : ~(x[k] /\ y[k])

\* FixedBitSet::clear: every bit off, the length stays.
clear_bits(b) == [k \in 1..Len(b) |-> FALSE]

SetsAccessed_read_only(access_) == access_ = Read

\* The match in set_access_for_stateful_query: Read and Write set the accessed bit.
SetsAccessed(access_) == access_ = Read \/ access_ = Write

SetsMutable_any(access_) == access_ = Read \/ access_ = Write

\* The match in set_access_for_stateful_query: Write alone sets the mutable bit.
SetsMutable(access_) == access_ = Write

\* ArchetypeAccess::set_access_for_query::<Q>(world) on the access acc, in a
\* world of n archetypes.
set_access_for_query(acc, q, n) ==
    LET accessed_ == grow(acc.accessed, n)
        mutable_ == grow(acc.mutable, n)
    IN  [accessed |-> [k \in 1..Len(accessed_) |->
                          accessed_[k] \/ (k <= n /\ SetsAccessed(Fetch_access(q, k - 1)))],
         mutable |-> [k \in 1..Len(mutable_) |->
                          mutable_[k] \/ (k <= n /\ SetsMutable(Fetch_access(q, k - 1)))]]

ArchetypeAccess_is_compatible_one_way(x, y) == is_disjoint(x.mutable, y.accessed)

\* ArchetypeAccess::is_compatible
ArchetypeAccess_is_compatible(x, y) ==
    is_disjoint(x.mutable, y.accessed) /\ is_disjoint(x.accessed, y.mutable)

\* ArchetypeAccess::clear
ArchetypeAccess_clear(acc) ==
    [accessed |-> clear_bits(acc.accessed), mutable |-> clear_bits(acc.mutable)]

\* The queries whose access the units declare.
AccessQueries ==
    {Q_Entity, Q_Ref("X"), Q_Ref("Y"), Q_Mut("X"), Q_Mut("Y"), Q_Mut("Z"),
     Q_Tuple(<<Q_Ref("X"), Q_Ref("Y")>>),
     Q_Tuple(<<Q_Option(Q_Mut("X")), Q_Ref("Y")>>),
     Q_Tuple(<<Q_Entity, Q_Mutated("X")>>),
     Q_Without("X", Q_Ref("Y")),
     Q_With("Z", Q_Mut("Y")),
     Q_Or(<<Q_Added("X"), Q_Changed("Z")>>),
     Q_Option(Q_Ref("Z"))}

\* The world gets its next archetype.
World_new_archetype ==
    /\ world_len < Cardinality(AllArchetypes)
    /\ world_len' = world_len + 1
    /\ UNCHANGED <<storageVars, ret, panicked, borrow, holder, access, unit>>

\* A unit adds the access of one of its queries to its ArchetypeAccess.
Unit_set_access_for_query(u, q) ==
    /\ access' = [access EXCEPT ![u] = set_access_for_query(@, q, world_len)]
    /\ UNCHANGED <<storageVars, ret, panicked, borrow, holder, world_len, unit>>

\* A unit clears its ArchetypeAccess.
Unit_clear_access(u) ==
    /\ access' = [access EXCEPT ![u] = ArchetypeAccess_clear(@)]
    /\ UNCHANGED <<storageVars, ret, panicked, borrow, holder, world_len, unit>>

InitAccess ==
    /\ InitStorage
    /\ world_len = 0
    /\ access = [u \in Units |-> DefaultAccess]
    /\ unit = [u \in Units |-> NoUnit]

NextAccess ==
    \/ World_new_archetype
    \/ \E u \in Units, q \in AccessQueries : Unit_set_access_for_query(u, q)
    \/ \E u \in Units : Unit_clear_access(u)

SpecAccess == InitAccess /\ [][NextAccess]_vars

\* The archetype indices whose bit is set.
OnesSet(b) == {i \in 0..(Len(b) - 1) : b[i + 1]}

\* C3: is_compatible of two accesses is true exactly when neither one's mutable
\* archetypes meet the other's accessed archetypes; a unit writing {0} and
\* reading {1} is incompatible with a unit reading {0}, and a unit writing
\* only {0} is compatible with a unit writing only another archetype.
CompatibleIffDisjoint ==
    \A u, v \in Units :
        LET A == access[u]
            B == access[v]
        IN  /\ ArchetypeAccess_is_compatible(A, B) <=>
                   (/\ OnesSet(A.mutable) \cap OnesSet(B.accessed) = {}
                    /\ OnesSet(B.mutable) \cap OnesSet(A.accessed) = {})
            /\ (/\ OnesSet(A.mutable) = {0} /\ OnesSet(A.accessed) = {0, 1}
                 /\ OnesSet(B.mutable) = {} /\ OnesSet(B.accessed) = {0})
                    => ~ArchetypeAccess_is_compatible(A, B)
            /\ (/\ OnesSet(A.mutable) = {0} /\ OnesSet(A.accessed) = {0}
                 /\ OnesSet(B.mutable) = OnesSet(B.accessed) /\ 0 \notin OnesSet(B.accessed))
                    => ArchetypeAccess_is_compatible(A, B)

WriterMeetsReader ==
    /\ OnesSet(access[1].mutable) = {0} /\ OnesSet(access[1].accessed) = {0, 1}
    /\ OnesSet(access[2].mutable) = {} /\ OnesSet(access[2].accessed) = {0}
    /\ Len(access[1].accessed) # Len(access[2].accessed)
    /\ ~ArchetypeAccess_is_compatible(access[2], access[1])

\* C5: set_access_for_query of Q sets, for every archetype index of the world,
\* the accessed bit iff it was set or Q's access there is Read or Write, and
\* the mutable bit iff it was set or Q's access there is Write; where the
\* access is Iterate or None no bit changes, so adding an entity-only query
\* changes no bit and no compatibility.
SetAccessBits ==
    [][\A u \in Units, q \in AccessQueries :
          Unit_set_access_for_query(u, q) =>
              /\ \A i \in 0..(world_len - 1) :
                     /\ contains(access'[u].accessed, i) <=>
                            (contains(access[u].accessed, i) \/ Fetch_access(q, i) \in {Read, Write})
                     /\ contains(access'[u].mutable, i) <=>
                            (contains(access[u].mutable, i) \/ Fetch_access(q, i) = Write)
              /\ OnesSet(access'[u].accessed) \subseteq
                     OnesSet(access[u].accessed) \cup (0..(world_len - 1))
              /\ OnesSet(access'[u].mutable) \subseteq
                     OnesSet(access[u].mutable) \cup (0..(world_len - 1))
              /\ q = Q_Entity =>
                     /\ OnesSet(access'[u].accessed) = OnesSet(access[u].accessed)
                     /\ OnesSet(access'[u].mutable) = OnesSet(access[u].mutable)
                     /\ \A v \in Units :
                            ArchetypeAccess_is_compatible(access'[u], access'[v]) =
                                ArchetypeAccess_is_compatible(access[u], access[v])]_vars

ReadSetsAccessedOnly ==
    /\ world_len = 3
    /\ access[1] = [accessed |-> <<TRUE, FALSE, TRUE>>, mutable |-> <<FALSE, FALSE, FALSE>>]
    /\ access[2] = [accessed |-> <<TRUE, TRUE, FALSE>>, mutable |-> <<FALSE, TRUE, FALSE>>]

\* The members of the queries of a set.
Members(S) == UNION {{q.qs[n] : n \in DOMAIN q.qs} : q \in S}

\* The queries the units declare, their members down to the leaves, and the
\* empty tuple.
AccessShapes ==
    AccessQueries \cup Members(AccessQueries) \cup Members(Members(AccessQueries))
        \cup {Q_Tuple(<<>>)}

\* C18: on every archetype, Fetch::access is Read for &T and Write for &mut T
\* where the archetype has T and None elsewhere; for Option<Q> it is Q's access,
\* Iterate where that is None, and never None; for With<T, Q> it is Q's access
\* where the archetype has T and None elsewhere; for Without<T, Q> it is None
\* where the archetype has T and Q's access elsewhere; for a tuple it is None
\* where a member's is None and otherwise the greatest of Iterate and the
\* members'; for Entity it is Iterate; and None < Iterate < Read < Write.
FetchAccessTable ==
    /\ NoAccess < Iterate
    /\ Iterate < Read
    /\ Read < Write
    /\ \A q \in AccessShapes : \A a \in AllArchetypes :
           LET x == Fetch_access(q, a)
           IN  /\ q.k = "Ref" => x = IF has_type(a, q.ty) THEN Read ELSE NoAccess
               /\ q.k = "Mut" => x = IF has_type(a, q.ty) THEN Write ELSE NoAccess
               /\ q.k = "Option" =>
                      /\ x # NoAccess
                      /\ x = IF Fetch_access(q.qs[1], a) = NoAccess THEN Iterate
                             ELSE Fetch_access(q.qs[1], a)
               /\ q.k = "With" =>
                      x = IF has_type(a, q.ty) THEN Fetch_access(q.qs[1], a) ELSE NoAccess
               /\ q.k = "Without" =>
                      x = IF has_type(a, q.ty) THEN NoAccess ELSE Fetch_access(q.qs[1], a)
               /\ q.k = "Tuple" =>
                      x = IF \E n \in DOMAIN q.qs : Fetch_access(q.qs[n], a) = NoAccess THEN NoAccess
                          ELSE Greatest({Iterate} \cup {Fetch_access(q.qs[n], a) : n \in DOMAIN q.qs})
               /\ q.k = "Entity" => x = Iterate
    /\ \A u \in Units : \A i \in 0..(Len(access[u].accessed) - 1) :
           contains(access[u].accessed, i) =>
               \E q \in AccessQueries : Fetch_access(q, i) \in {Read, Write}

\* The access of (Option<&mut X>, &Y) has been set on the three archetypes:
\* Write on {X, Y}, Read on {Y, Z} where the option is absent, None on {X}.
OptionTupleAccessSet ==
    /\ world_len = 3
    /\ access[1] = [accessed |-> <<TRUE, TRUE, FALSE>>, mutable |-> <<TRUE, FALSE, FALSE>>]
    /\ access[2] = DefaultAccess

\* FetchMutated::get / should_skip / next on one archetype: the entities of the
\* rows 0..n-1 whose mutated flag of ty is set, in row order.
RECURSIVE MutatedRows(_, _, _)
MutatedRows(ents, flags, n) ==
    IF n = 0 THEN <<>>
    ELSE MutatedRows(ents, flags, n - 1) \o (IF flags[n] THEN <<ents[n]>> ELSE <<>>)

\* What iterating the query (Entity, Mutated<ty>) yields on the storage
\* <<ents, flags>>: archetypes in index order, those without ty skipped.
Query_Mutated(ents, flags, ty) ==
    Concat([k \in 1..2 |-> IF has_type(k - 1, ty)
                           THEN MutatedRows(ents[k - 1], flags[k - 1][ty], Len(ents[k - 1]))
                           ELSE <<>>], 2)

\* --------------------------------------------------------------- iteration

\* The archetypes a query iterates: their entities, storages and flag arrays.
World ==
    [entities |-> entities, storage |-> storage,
     added |-> added_entities, mutated |-> mutated_entities]

\* Fetch::get(archetype, offset) of every Fetch implementation: whether it is
\* Some, that is, whether the archetype is traversed.
RECURSIVE Fetch_get(_, _), AllGet(_, _, _)
Fetch_get(q, a) ==
    CASE q.k = "Entity" -> TRUE
      [] q.k \in {"Ref", "Mut", "Mutated", "Added", "Changed"} -> has_type(a, q.ty)
      [] q.k = "Option" -> TRUE
      [] q.k = "With" -> has_type(a, q.ty) /\ Fetch_get(q.qs[1], a)
      [] q.k = "Without" -> ~has_type(a, q.ty) /\ Fetch_get(q.qs[1], a)
      [] q.k = "Dynamic" -> DynamicFetch_get(q.qs, a)
      [] OTHER -> AllGet(q.qs, a, Len(q.qs))

AllGet(qs, a, n) == IF n = 0 THEN TRUE ELSE AllGet(qs, a, n - 1) /\ Fetch_get(qs[n], a)

\* The raw pointers a fetch of q on archetype a holds: one for Entity and &T,
\* a value and a flag pointer for &mut T, Mutated and Added, a value and two
\* flag pointers for Changed, and those of the members for the others.
RECURSIVE PtrCount(_, _), MembersPtrCount(_, _, _)
PtrCount(q, a) ==
    CASE q.k \in {"Entity", "Ref"} -> 1
      [] q.k \in {"Mut", "Mutated", "Added"} -> 2
      [] q.k = "Changed" -> 3
      [] q.k = "Option" -> IF Fetch_get(q.qs[1], a) THEN PtrCount(q.qs[1], a) ELSE 0
      [] q.k \in {"With", "Without"} -> PtrCount(q.qs[1], a)
      [] OTHER -> MembersPtrCount(q.qs, a, Len(q.qs))

MembersPtrCount(qs, a, n) ==
    IF n = 0 THEN 0 ELSE MembersPtrCount(qs, a, n - 1) + PtrCount(qs[n], a)

\* The fetch Fetch::get(archetype, offset) returns when it is Some: every
\* pointer is the start of its array plus offset.  ptr lists the pointers as
\* row indices, the members' in member order.
Fetch_at(q, a, offset) == [a |-> a, ptr |-> [k \in 1..PtrCount(q, a) |-> offset]]

\* *pointer of a flag or value array: the element the pointer stands on.
Deref(array, p) == array[p + 1]

\* FetchChanged::should_skip on the two flags its pointers stand on.
FetchChanged_should_skip_both(added, mutated) == ~(added /\ mutated)

FetchChanged_should_skip(added, mutated) == ~added /\ ~mutated

\* The folds of impl_or_query's and tuple_impl's should_skip.
OrSkipFold_any(acc, skip) == acc \/ skip

OrSkipFold(acc, skip) == acc /\ skip

TupleSkipFold_first(acc, skip) == acc

TupleSkipFold(acc, skip) == acc \/ skip

\* Fetch::should_skip of the fetch f, whose pointers for q start at f.ptr[i].
RECURSIVE Fetch_should_skip(_, _, _, _), TupleSkip(_, _, _, _, _), OrSkip(_, _, _, _, _)
Fetch_should_skip(q, w, f, i) ==
    CASE q.k \in {"Entity", "Ref", "Mut"} -> FALSE
      [] q.k = "Mutated" -> ~Deref(w.mutated[f.a][q.ty], f.ptr[i + 1])
      [] q.k = "Added" -> ~Deref(w.added[f.a][q.ty], f.ptr[i + 1])
      [] q.k = "Changed" -> FetchChanged_should_skip(Deref(w.added[f.a][q.ty], f.ptr[i + 1]),
                                                     Deref(w.mutated[f.a][q.ty], f.ptr[i + 2]))
      [] q.k = "Option" -> IF Fetch_get(q.qs[1], f.a)
                           THEN Fetch_should_skip(q.qs[1], w, f, i) ELSE FALSE
      [] q.k \in {"With", "Without"} -> Fetch_should_skip(q.qs[1], w, f, i)
      [] q.k = "Tuple" -> TupleSkip(q.qs, w, f, i, Len(q.qs))
      [] OTHER -> OrSkip(q.qs, w, f, i, Len(q.qs))

\* tuple_impl should_skip: $(member.should_skip() ||)* false
TupleSkip(qs, w, f, i, n) ==
    IF n = 0 THEN FALSE
    ELSE TupleSkipFold(TupleSkip(qs, w, f, i, n - 1),
                       Fetch_should_skip(qs[n], w, f, i + MembersPtrCount(qs, f.a, n - 1)))

\* impl_or_query should_skip: true $(&& member.should_skip())+
OrSkip(qs, w, f, i, n) ==
    IF n = 0 THEN TRUE
    ELSE OrSkipFold(OrSkip(qs, w, f, i, n - 1),
                    Fetch_should_skip(qs[n], w, f, i + MembersPtrCount(qs, f.a, n - 1)))

\* pointer.add(1) on the pointers i .. i + n - 1 of the fetch f.
Advance(f, i, n) ==
    [f EXCEPT !.ptr = [k \in DOMAIN @ |-> IF k >= i /\ k < i + n THEN @[k] + 1 ELSE @[k]]]

\* Fetch::next of the fetch f, whose pointers for q start at f.ptr[i]: the item
\* read through the value pointer (for &mut T the value and the row of the flag
\* its Mut refers to), and the fetch with its pointers advanced.
RECURSIVE Fetch_next(_, _, _, _), MembersNext(_, _, _, _, _)
Fetch_next(q, w, f, i) ==
    CASE q.k = "Entity" -> [item |-> Deref(w.entities[f.a], f.ptr[i]), f |-> Advance(f, i, 1)]
      [] q.k = "Ref" ->
            [item |-> Deref(w.storage[f.a][q.ty], f.ptr[i]), f |-> Advance(f, i, 1)]
      [] q.k = "Mut" ->
            [item |-> [value |-> Deref(w.storage[f.a][q.ty], f.ptr[i]), mutated |-> f.ptr[i + 1]],
             f |-> Advance(f, i, 2)]
      [] q.k \in {"Mutated", "Added"} ->
            [item |-> Deref(w.storage[f.a][q.ty], f.ptr[i]), f |-> Advance(f, i, 2)]
      [] q.k = "Changed" ->
            [item |-> Deref(w.storage[f.a][q.ty], f.ptr[i]), f |-> Advance(f, i, 3)]
      [] q.k = "Option" -> IF Fetch_get(q.qs[1], f.a)
                           THEN LET r == Fetch_next(q.qs[1], w, f, i)
                                IN  [item |-> Some(r.item), f |-> r.f]
                           ELSE [item |-> None, f |-> f]
      [] q.k \in {"With", "Without"} -> Fetch_next(q.qs[1], w, f, i)
      [] OTHER -> MembersNext(q.qs, w, f, i, Len(q.qs))

MembersNext(qs, w, f, i, n) ==
    IF n = 0 THEN [item |-> <<>>, f |-> f]
    ELSE LET r == MembersNext(qs, w, f, i, n - 1)
             m == Fetch_next(qs[n], w, r.f, i + MembersPtrCount(qs, f.a, n - 1))
         IN  [item |-> Append(r.item, m.item), f |-> m.f]

\* The chunk QueryIter::next builds for archetype a: the fetch at offset 0 and
\* the whole length.  The row field counts the fetch's next calls.
QueryIter_chunk_short(w, a, q) ==
    [some |-> TRUE, a |-> a, row |-> 0, len |-> Max(Len(w.entities[a]), 1) - 1,
     f |-> Fetch_at(q, a, 0)]

QueryIter_chunk(w, a, q) ==
    [some |-> TRUE, a |-> a, row |-> 0, len |-> Len(w.entities[a]), f |-> Fetch_at(q, a, 0)]

\* ChunkIter::next on the chunk c: skipped rows are stepped over; the result
\* is the item yielded, if any, with its row, and the chunk afterwards.
RECURSIVE ChunkIter_next(_, _, _)
ChunkIter_next(q, w, c) ==
    IF c.len = 0 THEN [some |-> FALSE, a |-> c.a, row |-> c.row, item |-> None, c |-> c]
    ELSE LET n == Fetch_next(q, w, c.f, 1)
             c1 == [c EXCEPT !.len = @ - 1, !.row = @ + 1, !.f = n.f]
         IN  IF Fetch_should_skip(q, w, c.f, 1)
             THEN ChunkIter_next(q, w, c1)
             ELSE [some |-> TRUE, a |-> c.a, row |-> c.row, item |-> n.item, c |-> c1]

\* QueryIter::next on the iterator it = [archetype_index, iter]: the item
\* yielded, if any, with its row, and the iterator afterwards.
RECURSIVE QueryIter_next(_, _, _)
QueryIter_next(q, w, it) ==
    IF ~it.iter.some
    THEN IF it.archetype_index \notin DOMAIN w.entities
         THEN [some |-> FALSE, a |-> 0, row |-> 0, item |-> None, it |-> it]
         ELSE LET a == it.archetype_index
              IN  QueryIter_next(q, w,
                      [archetype_index |-> a + 1,
                       iter |-> IF Fetch_get(q, a) THEN QueryIter_chunk(w, a, q) ELSE NoChunk])
    ELSE LET r == ChunkIter_next(q, w, it.iter)
         IN  IF ~r.some
             THEN QueryIter_next(q, w, [it EXCEPT !.iter = NoChunk])
             ELSE [some |-> TRUE, a |-> r.a, row |-> r.row, item |-> r.item,
                   it |-> [it EXCEPT !.iter = r.c]]

\* QueryBorrow::iter / QueryBorrowChecked::iter: a QueryIter at the start.
NewQueryIter == [archetype_index |-> 0, iter |-> NoChunk]

\* The rows a QueryIter yields from the iterator it on, in order, until None.
RECURSIVE Collect(_, _, _)
Collect(q, w, it) ==
    LET r == QueryIter_next(q, w, it)
    IN  IF r.some THEN <<[a |-> r.a, row |-> r.row, item |-> r.item]>> \o Collect(q, w, r.it)
        ELSE <<>>

\* The rows the query q yields over the world w.
Query_rows(q, w) == Collect(q, w, NewQueryIter)

\* ------------------------------------------------- iterating a world

\* The change queries of type ty.
ChangeQueries(ty) == {Q_Added(ty), Q_Mutated(ty), Q_Changed(ty)}

\* The queries a caller iterates.
IterQueries ==
    {Q_Entity, Q_Ref("Y"), Q_Mut("X"),
     Q_Option(Q_Ref("X")), Q_Option(Q_Mutated("Z")),
     Q_With("X", Q_Ref("Y")), Q_Without("X", Q_Mutated("Y")),
     Q_Tuple(<<Q_Mutated("X"), Q_Mutated("Y"), Q_Entity>>),
     Q_Tuple(<<Q_Entity, Q_Ref("Y"), Q_Added("Y")>>),
     Q_Or(<<Q_Mutated("X"), Q_Mutated("Y")>>),
     Q_Or(<<Q_Added("Y"), Q_Mutated("Y")>>),
     Q_Tuple(<<Q_Or(<<Q_Mutated("X"), Q_Mutated("Y")>>), Q_Entity>>)}
        \cup ChangeQueries("X") \cup ChangeQueries("Y")

\* The entity lists an archetype can have: handles, each at most once.
EntityLists ==
    {s \in UNION {[1..n -> Entities] : n \in 0..MaxEntities} :
        \A j, k \in 1..Len(s) : j # k => s[j] # s[k]}

\* The flag arrays of the storages of archetype a when it has n rows.
FlagArrays(a, n) == [TypesOf(a) -> [1..n -> BOOLEAN]]

\* A world some spawns, writes and tracker clears have left: every entity in at
\* most one archetype, the inserted values in the storages, and any flags, the
\* flag arrays being public fields their owner sets.  No iterator exists yet.
InitQuery ==
    /\ \E ents \in [Archetypes -> EntityLists] :
           /\ \A j \in 1..Len(ents[0]), k \in 1..Len(ents[1]) : ents[0][j] # ents[1][k]
           /\ entities = ents
           /\ storage = [a \in Archetypes |->
                            [ty \in TypesOf(a) |->
                                [k \in 1..Len(ents[a]) |-> NewValue(ents[a][k], ty)]]]
           /\ \E ad0, mu0 \in FlagArrays(0, Len(ents[0])), ad1, mu1 \in FlagArrays(1, Len(ents[1])) :
                  /\ added_entities = [a \in Archetypes |-> IF a = 0 THEN ad0 ELSE ad1]
                  /\ mutated_entities = [a \in Archetypes |-> IF a = 0 THEN mu0 ELSE mu1]
    /\ pending = NoPending
    /\ mutref = NoMut
    /\ location = NoLocation
    /\ ret = NoRet
    /\ dropped = <<>>
    /\ panicked = FALSE
    /\ borrow = [a \in AllArchetypes |-> [ty \in TypesOf(a) |-> 0]]
    /\ holder = [h \in Holders |-> NoHolder]
    /\ world_len = 2
    /\ access = [u \in Units |-> DefaultAccess]
    /\ unit = [u \in Units |-> NoUnit]
    /\ NoIteration

\* What the iterators leave alone.
worldVars == <<entities, storage, added_entities, mutated_entities, pending, mutref,
               location, ret, dropped, panicked, borrow, holder, world_len, access, unit,
               handleVars, regVars, soaVars>>

\* QueryBorrow::iter / QueryBorrowChecked::iter for the query q.
Query_iter(q) ==
    /\ ~qiter.on
    /\ ~biter.on
    /\ qiter' = [on |-> TRUE, q |-> q, it |-> NewQueryIter, nones |-> 0]
    /\ UNCHANGED <<worldVars, yielded, biter, batches>>

\* One call of QueryIter::next by the caller: the item, if any, is recorded
\* with the row it came from; a None return is counted.
Iterator_next ==
    /\ qiter.on
    /\ qiter.nones < MaxNones
    /\ LET r == QueryIter_next(qiter.q, World, qiter.it)
       IN  /\ qiter' = [qiter EXCEPT !.it = r.it, !.nones = IF r.some THEN @ ELSE @ + 1]
           /\ yielded' = IF r.some
                         THEN Append(yielded, [a |-> r.a, row |-> r.row, item |-> r.item])
                         ELSE yielded
    /\ UNCHANGED <<worldVars, biter, batches>>

NextQuery ==
    \/ \E q \in IterQueries : Query_iter(q)
    \/ Iterator_next

SpecQuery == InitQuery /\ [][NextQuery]_vars

\* ------------------------------------------------------ batched iteration

Batch_len_whole(batch_size, n, offset) == batch_size

\* The length of a batch: batch_size.min(archetype.len() - offset).
Batch_len(batch_size, n, offset) == Min(batch_size, n - offset)

\* BatchedIter::next / ParIter::next_batch on the iterator it: the chunk of the
\* batch returned, if any, and the iterator afterwards.
RECURSIVE BatchedIter_next(_, _, _)
BatchedIter_next(q, w, it) ==
    IF it.archetype_index \notin DOMAIN w.entities
    THEN [some |-> FALSE, state |-> NoChunk, it |-> it]
    ELSE LET a == it.archetype_index
             offset == it.batch_size * it.batch
         IN  IF offset >= Len(w.entities[a])
             THEN BatchedIter_next(q, w, [it EXCEPT !.archetype_index = a + 1, !.batch = 0])
             ELSE IF Fetch_get(q, a)
                  THEN [some |-> TRUE,
                        state |-> [some |-> TRUE, a |-> a, row |-> offset,
                                   len |-> Batch_len(it.batch_size, Len(w.entities[a]), offset),
                                   f |-> Fetch_at(q, a, offset)],
                        it |-> [it EXCEPT !.batch = @ + 1]]
                  ELSE BatchedIter_next(q, w, [it EXCEPT !.archetype_index = a + 1])

\* The queries iterated in batches.
BatchQueries ==
    {Q_Entity, Q_Ref("Y"), Q_Mutated("Y"), Q_Without("X", Q_Ref("Y")),
     Q_Tuple(<<Q_Mut("X"), Q_Entity>>), Q_Or(<<Q_Mutated("X"), Q_Mutated("Y")>>)}

\* A world of up to MaxBatchRows rows: the first archetype holds the entities
\* 1..n0 and the second the next n1; Y's mutated flags are any, the others unset.
InitBatch ==
    /\ \E n0, n1 \in 0..MaxBatchRows :
           /\ n0 + n1 <= MaxBatchRows
           /\ entities = [a \in Archetypes |-> IF a = 0 THEN [k \in 1..n0 |-> k]
                                               ELSE [k \in 1..n1 |-> n0 + k]]
           /\ storage = [a \in Archetypes |->
                            [ty \in TypesOf(a) |->
                                IF a = 0 THEN [k \in 1..n0 |-> NewValue(k, ty)]
                                ELSE [k \in 1..n1 |-> NewValue(n0 + k, ty)]]]
           /\ added_entities = [a \in Archetypes |->
                                   [ty \in TypesOf(a) |->
                                       [k \in 1..(IF a = 0 THEN n0 ELSE n1) |-> FALSE]]]
           /\ \E y0 \in [1..n0 -> BOOLEAN], y1 \in [1..n1 -> BOOLEAN] :
                  mutated_entities =
                      [a \in Archetypes |->
                          [ty \in TypesOf(a) |->
                              IF ty = "Y" THEN (IF a = 0 THEN y0 ELSE y1)
                              ELSE [k \in 1..(IF a = 0 THEN n0 ELSE n1) |-> FALSE]]]
    /\ pending = NoPending
    /\ mutref = NoMut
    /\ location = NoLocation
    /\ ret = NoRet
    /\ dropped = <<>>
    /\ panicked = FALSE
    /\ borrow = [a \in AllArchetypes |-> [ty \in TypesOf(a) |-> 0]]
    /\ holder = [h \in Holders |-> NoHolder]
    /\ world_len = 2
    /\ access = [u \in Units |-> DefaultAccess]
    /\ unit = [u \in Units |-> NoUnit]
    /\ NoIteration

\* QueryBorrow::iter_batched / QueryBorrowChecked::par_iter for the query q.
Query_iter_batched(q, batch_size) ==
    /\ ~qiter.on
    /\ ~biter.on
    /\ biter' = [on |-> TRUE, q |-> q, batch_size |-> batch_size, archetype_index |-> 0,
                 batch |-> 0, nones |-> 0]
    /\ UNCHANGED <<worldVars, qiter, yielded, batches>>

\* One call of BatchedIter::next by the caller: the batch, if any, is recorded
\* with its archetype, offset and length; a None return is counted.
BatchedIterator_next ==
    /\ biter.on
    /\ biter.nones < MaxNones
    /\ LET r == BatchedIter_next(biter.q, World, biter)
       IN  /\ biter' = [r.it EXCEPT !.nones = IF r.some THEN @ ELSE @ + 1]
           /\ batches' = IF r.some
                         THEN Append(batches, [a |-> r.state.a, offset |-> r.state.row,
                                               len |-> r.state.len, state |-> r.state,
                                               items |-> <<>>, done |-> FALSE])
                         ELSE batches
    /\ UNCHANGED <<worldVars, qiter, yielded>>

\* One call of Batch::next on the k-th batch by whoever consumes it.
Batch_next(k) ==
    /\ k \in 1..Len(batches)
    /\ ~batches[k].done
    /\ LET r == ChunkIter_next(biter.q, World, batches[k].state)
       IN  batches' = [batches EXCEPT
                          ![k].state = r.c,
                          ![k].done = ~r.some,
                          ![k].items = IF r.some THEN Append(@, [a |-> r.a, row |-> r.row,
                                                                 item |-> r.item])
                                       ELSE @]
    /\ UNCHANGED <<worldVars, qiter, yielded, biter>>

NextBatch ==
    \/ \E q \in BatchQueries, batch_size \in 1..MaxBatchSize : Query_iter_batched(q, batch_size)
    \/ BatchedIterator_next
    \/ \E k \in 1..MaxBatchRows : Batch_next(k)

SpecBatch == InitBatch /\ [][NextBatch]_vars

\* --------------------------------------------------- iteration properties

\* The rows of the archetypes of the world, first to last.
Rows == {r \in [a : Archetypes, row : 0..(MaxEntities - 1)] : r.row < len(r.a)}

\* The iterator has returned None: the iteration is over.
Finished == qiter.on /\ qiter.nones > 0

\* yielded holds an item that came from row r.
YieldedFrom(r) == \E k \in 1..Len(yielded) : yielded[k].a = r.a /\ yielded[k].row = r.row

\* The flags a change query reports a row for.
Flagged(q, r) ==
    CASE q.k = "Added" -> added_entities[r.a][q.ty][r.row + 1]
      [] q.k = "Mutated" -> mutated_entities[r.a][q.ty][r.row + 1]
      [] OTHER -> added_entities[r.a][q.ty][r.row + 1] \/ mutated_entities[r.a][q.ty][r.row + 1]

\* C15: an Added<T>, Mutated<T> or Changed<T> query has Read access to the
\* archetypes with T and none to the others, which it leaves out; every item
\* it yields is T's value of a row of an archetype with T whose added flag,
\* mutated flag, or either of the two is set; and when it is over it has
\* yielded every such row.
ChangeFetchGated ==
    /\ \A ty \in Types : \A q \in ChangeQueries(ty) : \A a \in AllArchetypes :
           /\ Fetch_access(q, a) = IF has_type(a, ty) THEN Read ELSE NoAccess
           /\ Fetch_get(q, a) <=> has_type(a, ty)
    /\ (qiter.on /\ qiter.q.k \in {"Added", "Mutated", "Changed"}) =>
           /\ \A k \in 1..Len(yielded) :
                  /\ has_type(yielded[k].a, qiter.q.ty)
                  /\ Flagged(qiter.q, yielded[k])
                  /\ yielded[k].item = storage[yielded[k].a][qiter.q.ty][yielded[k].row + 1]
           /\ Finished =>
                  \A r \in Rows : (has_type(r.a, qiter.q.ty) /\ Flagged(qiter.q, r)) => YieldedFrom(r)

\* A Changed<Y> iteration over two rows of the two archetypes is over; it
\* yielded the row that is only added and left out the row with no flag.
ChangedYieldedOneOfTwo ==
    /\ Finished
    /\ qiter.q = Q_Changed("Y")
    /\ len(0) = 1
    /\ len(1) = 1
    /\ ~added_entities[0]["Y"][1] /\ ~mutated_entities[0]["Y"][1]
    /\ added_entities[1]["Y"][1] /\ ~mutated_entities[1]["Y"][1]
    /\ Len(yielded) = 1
    /\ yielded[1].a = 1

\* A fetch of q placed on row r by Fetch::get skips it.
SkipsRow(q, r) == Fetch_should_skip(q, World, Fetch_at(q, r.a, r.row), 1)

\* The item a fetch of q placed on row r by Fetch::get returns.
ItemAt(q, r) == Fetch_next(q, World, Fetch_at(q, r.a, r.row), 1).item

\* C16: the access of an Or query to an archetype is the greatest of its
\* branches' accesses; its fetch skips a row iff every branch skips it, so the
\* iteration yields only rows one branch at least passes and, when it is over,
\* has yielded every such row of the archetypes it traverses.
OrMaxAccessAllSkip ==
    /\ \A q \in IterQueries : q.k = "Or" =>
           /\ \A a \in AllArchetypes :
                  Fetch_access(q, a) = Greatest({Fetch_access(q.qs[n], a) : n \in DOMAIN q.qs})
           /\ \A r \in Rows : Fetch_get(q, r.a) =>
                  (SkipsRow(q, r) <=> \A n \in DOMAIN q.qs : SkipsRow(q.qs[n], r))
    /\ (qiter.on /\ qiter.q.k = "Or") =>
           /\ \A k \in 1..Len(yielded) :
                  \E n \in DOMAIN qiter.q.qs : ~SkipsRow(qiter.q.qs[n], yielded[k])
           /\ Finished =>
                  \A r \in Rows :
                      (Fetch_get(qiter.q, r.a) /\ \E n \in DOMAIN qiter.q.qs : ~SkipsRow(qiter.q.qs[n], r))
                          => YieldedFrom(r)

\* An Or<(Mutated<X>, Mutated<Y>)> iteration is over: of the two rows with X
\* and Y it yielded the one whose X alone is mutated and left out the other.
OrYieldedOneBranchRow ==
    /\ Finished
    /\ qiter.q = Q_Or(<<Q_Mutated("X"), Q_Mutated("Y")>>)
    /\ len(0) = 2
    /\ mutated_entities[0]["X"] = <<TRUE, FALSE>>
    /\ mutated_entities[0]["Y"] = <<FALSE, FALSE>>
    /\ Len(yielded) = 1
    /\ yielded[1].row = 0

\* C17: a tuple query yields a row iff no member skips it, and the elements of
\* every tuple it yields are the members' items of one and the same row; so
\* (Mutated<X>, Mutated<Y>, Entity) yields exactly the entities whose X and Y
\* are both mutated, each with its own X and Y.
TupleYieldsUnskipped ==
    /\ (qiter.on /\ qiter.q.k = "Tuple") =>
           /\ \A k \in 1..Len(yielded) : \A n \in DOMAIN qiter.q.qs :
                  /\ ~SkipsRow(qiter.q.qs[n], yielded[k])
                  /\ yielded[k].item[n] = ItemAt(qiter.q.qs[n], yielded[k])
           /\ Finished =>
                  \A r \in Rows :
                      (Fetch_get(qiter.q, r.a) /\ \A n \in DOMAIN qiter.q.qs : ~SkipsRow(qiter.q.qs[n], r))
                          => YieldedFrom(r)
    /\ (qiter.on /\ qiter.q = Q_Tuple(<<Q_Mutated("X"), Q_Mutated("Y"), Q_Entity>>)) =>
           /\ \A k \in 1..Len(yielded) :
                  LET r == yielded[k]
                  IN  /\ r.item[3] = entities[r.a][r.row + 1]
                      /\ r.item[1] = NewValue(r.item[3], "X")
                      /\ r.item[2] = NewValue(r.item[3], "Y")
                      /\ mutated_entities[r.a]["X"][r.row + 1]
                      /\ mutated_entities[r.a]["Y"][r.row + 1]
           /\ Finished =>
                  {yielded[k].item[3] : k \in 1..Len(yielded)} =
                      {entities[0][k] : k \in {j \in 1..len(0) : /\ mutated_entities[0]["X"][j]
                                                                 /\ mutated_entities[0]["Y"][j]}}

\* A (Mutated<X>, Mutated<Y>, Entity) iteration is over: of two rows it left
\* out the first, whose X alone is mutated, and yielded the second, whose X and
\* Y both are.
TupleYieldedSecondRow ==
    /\ Finished
    /\ qiter.q = Q_Tuple(<<Q_Mutated("X"), Q_Mutated("Y"), Q_Entity>>)
    /\ entities[0] = <<1, 2>>
    /\ mutated_entities[0]["X"] = <<TRUE, TRUE>>
    /\ mutated_entities[0]["Y"] = <<FALSE, TRUE>>
    /\ Len(yielded) = 1
    /\ yielded[1].item = <<NewValue(2, "X"), NewValue(2, "Y"), 2>>

\* What QueryIter has yielded so far: items of rows of archetypes the query's
\* fetch exists on, none skipped by it, each the item of its row, in archetype
\* order and within an archetype in row order, so no row twice; and once the
\* iterator has returned None, every such row.
QueryIterInOrder ==
    qiter.on =>
        /\ \A k \in 1..Len(yielded) :
               /\ [a |-> yielded[k].a, row |-> yielded[k].row] \in Rows
               /\ Fetch_get(qiter.q, yielded[k].a)
               /\ ~SkipsRow(qiter.q, yielded[k])
               /\ yielded[k].item = ItemAt(qiter.q, yielded[k])
        /\ \A j, k \in 1..Len(yielded) :
               j < k => \/ yielded[j].a < yielded[k].a
                        \/ yielded[j].a = yielded[k].a /\ yielded[j].row < yielded[k].row
        /\ Finished =>
               \A r \in Rows : (Fetch_get(qiter.q, r.a) /\ ~SkipsRow(qiter.q, r)) => YieldedFrom(r)

\* C19: QueryIter visits the archetypes in index order and the rows of each in
\* increasing index; it yields every row its fetch does not skip of every
\* archetype the fetch exists on exactly once and nothing else; every call of
\* next yields one more row or returns None, so None comes after at most as
\* many calls as there are rows, and after a None nothing is yielded.
QueryIterVisitsAll ==
    /\ []QueryIterInOrder
    /\ [][Iterator_next =>
             /\ \/ Len(yielded') = Len(yielded) + 1 /\ qiter'.nones = qiter.nones
                \/ yielded' = yielded /\ qiter'.nones = qiter.nones + 1
             /\ Finished => yielded' = yielded]_vars

\* An (Entity) iteration over both archetypes is over with one row from each;
\* a second None followed the first.
VisitedBothArchetypes ==
    /\ qiter.on
    /\ qiter.nones = 2
    /\ qiter.q = Q_Entity
    /\ len(0) = 1
    /\ len(1) = 1
    /\ Len(yielded) = 2
    /\ yielded[1].a = 0
    /\ yielded[2].a = 1

\* The rows of the k-th batch returned.
BatchRange(k) == batches[k].offset .. (batches[k].offset + batches[k].len - 1)

\* C20: for a batch size of at least one, the batches of every archetype the
\* fetch exists on are the ranges [j * batch_size, min((j + 1) * batch_size, n))
\* of its n rows, in order: the first starts at offset 0, each next one where
\* the one before ended, no two batches share a row, no batch has rows of two
\* archetypes, and when the iterator has returned None every row of every such
\* archetype is in exactly one batch.  A batch yields the rows of its range
\* that the fetch does not skip, and no other.
BatchesPartition ==
    biter.on =>
        /\ \A k \in 1..Len(batches) :
               LET b == batches[k]
               IN  /\ b.a \in Archetypes
                   /\ Fetch_get(biter.q, b.a)
                   /\ \E j \in 0..MaxBatchRows :
                          /\ b.offset = j * biter.batch_size
                          /\ b.offset < len(b.a)
                          /\ b.offset + b.len = Min((j + 1) * biter.batch_size, len(b.a))
                   /\ (k = 1 \/ batches[k - 1].a # b.a) => b.offset = 0
                   /\ (k > 1 /\ batches[k - 1].a = b.a) =>
                          b.offset = batches[k - 1].offset + batches[k - 1].len
                   /\ k > 1 => batches[k - 1].a <= b.a
                   /\ \A i \in 1..Len(b.items) :
                          /\ b.items[i].a = b.a
                          /\ b.items[i].row \in BatchRange(k)
                          /\ ~SkipsRow(biter.q, b.items[i])
                          /\ b.items[i].item = ItemAt(biter.q, b.items[i])
                   /\ b.done =>
                          \A row \in BatchRange(k) :
                              ~SkipsRow(biter.q, [a |-> b.a, row |-> row]) =>
                                  \E i \in 1..Len(b.items) : b.items[i].row = row
        /\ \A j, k \in 1..Len(batches) :
               (j # k /\ batches[j].a = batches[k].a) => BatchRange(j) \cap BatchRange(k) = {}
        /\ biter.nones > 0 =>
               \A a \in Archetypes : Fetch_get(biter.q, a) =>
                   \A row \in 0..(len(a) - 1) :
                       Cardinality({k \in 1..Len(batches) :
                                       batches[k].a = a /\ row \in BatchRange(k)}) = 1

\* Batches of two over an archetype of three rows and one of none: a full
\* batch, then the batch of the last row, then None; both batches consumed.
FullThenPartialBatch ==
    /\ biter.on
    /\ biter.nones > 0
    /\ biter.batch_size = 2
    /\ biter.q = Q_Mutated("Y")
    /\ len(0) = 3
    /\ Len(batches) = 2
    /\ batches[1].offset = 0 /\ batches[1].len = 2 /\ batches[1].done
    /\ batches[2].offset = 2 /\ batches[2].len = 1 /\ batches[2].done
    /\ Len(batches[1].items) = 1
    /\ Len(batches[2].items) = 1

\* ------------------------------------------------------ storage properties

\* The entities the query q reports over the world w.
ReportedBy(q, w) ==
    LET rows == Query_rows(q, w)
    IN  {w.entities[rows[k].a][rows[k].row + 1] : k \in 1..Len(rows)}

\* C11: clear_trackers on an archetype leaves every added and mutated flag of
\* every storage of it false, so that the Added, Mutated and Changed queries
\* yield no row of it; it changes no flag array's length, no storage, no entity
\* list and no flag of another archetype.
ClearTrackersClears ==
    [][\A a \in Archetypes :
          Archetype_clear_trackers(a) =>
              /\ \A ty \in TypesOf(a) :
                     /\ Len(added_entities'[a][ty]) = Len(added_entities[a][ty])
                     /\ Len(mutated_entities'[a][ty]) = Len(mutated_entities[a][ty])
                     /\ \A k \in 1..Len(added_entities[a][ty]) : ~added_entities'[a][ty][k]
                     /\ \A k \in 1..Len(mutated_entities[a][ty]) : ~mutated_entities'[a][ty][k]
                     /\ \A q \in ChangeQueries(ty) :
                            \A k \in 1..Len(Query_rows(q, World')) : Query_rows(q, World')[k].a # a
              /\ entities' = entities
              /\ storage' = storage
              /\ \A x \in Archetypes \ {a} :
                     /\ added_entities'[x] = added_entities[x]
                     /\ mutated_entities'[x] = mutated_entities[x]]_vars

ClearedTwoRows ==
    /\ ret.op = "clear_trackers"
    /\ Len(entities[0]) = 2
    /\ \A ty \in TypesOf(0) : mutated_entities[0][ty] = <<FALSE, FALSE>>
    /\ \E ty \in TypesOf(1) : \E k \in 1..Len(mutated_entities[1][ty]) : mutated_entities[1][ty][k]

\* C12: once a fresh allocate and its inserts are done, the added flag of every
\* storage is set for the new row and its mutated flag is not.
InsertSetsAdded ==
    (ret.op = "allocate" /\ pending.types = {}) =>
        \A ty \in TypesOf(pending.a) :
            /\ added_entities[pending.a][ty][ret.r.v + 1]
            /\ ~mutated_entities[pending.a][ty][ret.r.v + 1]

\* C13: move_to carries the added and mutated flags of every type both
\* archetypes have to the entity's new row; for such a type the moved entity is
\* reported by Mutated<ty> after the move iff it was before, and so is every
\* other entity for every type whose storages are complete.
MoveCarriesFlags ==
    [][\A a, b \in Archetypes, index \in 0..MaxRows, drop_unused \in BOOLEAN :
          (Archetype_move_to(a, index, b, drop_unused) /\ index < len(a)) =>
              /\ \A ty \in TypesOf(a) \cap TypesOf(b) :
                     /\ added_entities'[b][ty][location'.index + 1] = added_entities[a][ty][index + 1]
                     /\ mutated_entities'[b][ty][location'.index + 1] =
                            mutated_entities[a][ty][index + 1]
              /\ \A ty \in Types \ pending'.types, f \in Entities :
                     (f # entities[a][index + 1] \/ ty \in TypesOf(a) \cap TypesOf(b)) =>
                         (f \in ReportedBy(Q_Mutated(ty), World') <=>
                              f \in ReportedBy(Q_Mutated(ty), World))]_vars

\* C14: remove(index) leaves the added and mutated flags of every remaining
\* entity as they were, the entity relocated from the last row included, and
\* the removed entity is in no archetype afterwards.
RemoveKeepsFlags ==
    [][\A a \in Archetypes, index \in 0..MaxRows :
          (Archetype_remove(a, index) /\ index < len(a)) =>
              /\ \A k \in 1..len(a) : k # index + 1 =>
                     LET k2 == IF k = len(a) THEN index + 1 ELSE k
                     IN  /\ entities'[a][k2] = entities[a][k]
                         /\ \A ty \in TypesOf(a) :
                                /\ added_entities'[a][ty][k2] = added_entities[a][ty][k]
                                /\ mutated_entities'[a][ty][k2] = mutated_entities[a][ty][k]
              /\ \A x \in Archetypes \ {a} :
                     /\ added_entities'[x] = added_entities[x]
                     /\ mutated_entities'[x] = mutated_entities[x]
              /\ \A x \in Archetypes, k \in 1..MaxEntities :
                     k <= Len(entities'[x]) => entities'[x][k] # entities[a][index + 1]]_vars

\* The vector t is the vector s without its row index: it is one shorter, the
\* last row of s fills the vacated row unless that row was the last, and every
\* other row is where it was.
RowGone(s, t, index) ==
    /\ Len(t) = Len(s) - 1
    /\ index < Len(s) - 1 => t[index + 1] = s[Len(s)]
    /\ \A k \in 1..(Len(s) - 1) : k # index + 1 => t[k] = s[k]

\* C1: once a row is complete (allocate and its inserts, remove, or move_to and
\* its inserts), the entity list, every storage and every flag array of every
\* archetype have the same length.
RowAlignment ==
    (pending.types = {} /\ ~panicked) =>
        \A a \in Archetypes : \A ty \in TypesOf(a) :
            /\ Len(storage[a][ty]) = Len(entities[a])
            /\ Len(added_entities[a][ty]) = Len(entities[a])
            /\ Len(mutated_entities[a][ty]) = Len(entities[a])

\* C6: move_to of row index from a to b appends the row's entity and the value
\* of every type both archetypes have to b, leaves b's other storages and rows
\* as they were, and takes the row out of every storage of a: the last row of a
\* fills the vacated row, or a just shrinks when the row was the last.
MoveCorrect ==
    [][\A a, b \in Archetypes, index \in 0..MaxRows, drop_unused \in BOOLEAN :
          (Archetype_move_to(a, index, b, drop_unused) /\ index < len(a)) =>
              /\ entities'[b] = Append(entities[b], entities[a][index + 1])
              /\ \A ty \in TypesOf(b) \cap TypesOf(a) :
                     storage'[b][ty] = Append(storage[b][ty], storage[a][ty][index + 1])
              /\ \A ty \in TypesOf(b) \ TypesOf(a) : storage'[b][ty] = storage[b][ty]
              /\ RowGone(entities[a], entities'[a], index)
              /\ \A ty \in TypesOf(a) : RowGone(storage[a][ty], storage'[a][ty], index)
              /\ \A x \in Archetypes \ {a, b} :
                     entities'[x] = entities[x] /\ storage'[x] = storage[x]]_vars

MoveFilledVacatedRow == ret.op = "move_to" /\ ret.r.some /\ pending.types # {}

\* C7: remove(index) on an archetype of n rows leaves n - 1 rows; for
\* index < n - 1 it returns the entity that was at row n - 1, which is now at
\* row index; for index = n - 1 it returns None.
RemoveCorrect ==
    [][\A a \in Archetypes, index \in 0..MaxRows :
          (Archetype_remove(a, index) /\ index < len(a)) =>
              LET n == len(a)
              IN  /\ Len(entities'[a]) = n - 1
                  /\ index < n - 1 => /\ ret'.r = Some(entities[a][n])
                                      /\ entities'[a][index + 1] = entities[a][n]
                  /\ index = n - 1 => ret'.r = None]_vars

RemoveMovedLastRow == ret.op = "remove" /\ ret.r.some

\* C8: move_to sets location.index to the length the target had before the
\* call, where the entity now is, and returns the entity moved into the vacated
\* source row, or None if the vacated row was the last.
MoveLocation ==
    [][\A a, b \in Archetypes, index \in 0..MaxRows, drop_unused \in BOOLEAN :
          (Archetype_move_to(a, index, b, drop_unused) /\ index < len(a)) =>
              LET n == len(a)
              IN  /\ location'.index = Len(entities[b])
                  /\ entities'[b][location'.index + 1] = entities[a][index + 1]
                  /\ index < n - 1 => /\ ret'.r = Some(entities[a][n])
                                      /\ entities'[a][index + 1] = entities[a][n]
                  /\ index = n - 1 => ret'.r = None]_vars

MoveIntoNonEmpty == ret.op = "move_to" /\ location.index = 1 /\ ~ret.r.some

\* How many destructor runs of the value v of type ty the sequence d holds.
DropCount(d, ty, v) == Cardinality({k \in 1..Len(d) : d[k] = [ty |-> ty, v |-> v]})

\* C9: move_to destroys no value of a type the target has; it destroys the
\* value of a type the target lacks exactly once when drop_unused is true and
\* not at all when it is false; it destroys nothing else.
MoveDrops ==
    [][\A a, b \in Archetypes, index \in 0..MaxRows, drop_unused \in BOOLEAN :
          (Archetype_move_to(a, index, b, drop_unused) /\ index < len(a)) =>
              /\ \A ty \in TypesOf(a) :
                     DropCount(dropped', ty, storage[a][ty][index + 1]) =
                         IF ~has_type(b, ty) /\ drop_unused THEN 1 ELSE 0
              /\ \A k \in 1..Len(dropped') :
                     /\ dropped'[k].ty \in TypesOf(a)
                     /\ dropped'[k].v = storage[a][dropped'[k].ty][index + 1]]_vars

MoveDroppedUnused == ret.op = "move_to" /\ Len(dropped) = 1

\* C10: deref_mut through a Mut sets the mutated flag of its row in its column
\* and changes no other flag; fetching the Mut, reading through it and dropping
\* it change no flag; after a deref_mut on a column with no mutated flag set,
\* the Mutated query of that type yields exactly that row's entity.
DerefMutFlags ==
    [][/\ Mut_deref_mut =>
           /\ mutated_entities'[mutref.a][mutref.ty][mutref.index + 1]
           /\ \A a \in Archetypes : \A ty \in TypesOf(a) : \A k \in 1..Len(mutated_entities[a][ty]) :
                  <<a, ty, k>> # <<mutref.a, mutref.ty, mutref.index + 1>> =>
                      mutated_entities'[a][ty][k] = mutated_entities[a][ty][k]
           /\ added_entities' = added_entities
           /\ Query_Mutated(entities, mutated_entities, mutref.ty) = <<>> =>
                  Query_Mutated(entities', mutated_entities', mutref.ty) =
                      <<entities[mutref.a][mutref.index + 1]>>
       /\ ((\E a \in Archetypes, ty \in Types, index \in 0..MaxRows : FetchMut_next(a, ty, index))
              \/ Mut_deref \/ Mut_drop) =>
                 /\ mutated_entities' = mutated_entities
                 /\ added_entities' = added_entities]_vars

MutatedOneOfTwo ==
    /\ ret.op = "deref_mut"
    /\ Len(entities[0]) = 2
    /\ mutated_entities[0]["X"] = <<TRUE, FALSE>>
    /\ mutated_entities[0]["Y"] = <<FALSE, FALSE>>

\* ------------------------------------------------------- units side by side

\* The queries of the units that run side by side; the last one borrows X
\* twice, once exclusively.
UnitQueries == AccessQueries \cup {Q_Tuple(<<Q_Ref("X"), Q_Mut("X")>>)}

\* The archetypes a query borrow reads without writing: accessed, not mutable.
immutable(acc) == [k \in 1..Len(acc.accessed) |-> acc.accessed[k] /\ ~acc.mutable[k]]

\* The archetypes QueryBorrowChecked::borrow and drop walk, in their order:
\* immutable.ones(), then mutable.ones().
BorrowOrder(acc) == ones(immutable(acc)) \o ones(acc.mutable)

\* The counter operations of QueryBorrowChecked::borrow of unit u, in order;
\* drop performs the matching releases in the same order.
UnitOps(u) ==
    LET order == BorrowOrder(access[u])
    IN  Concat([k \in 1..Len(order) |-> Fetch_borrow(unit[u].q, order[k])], Len(order))

\* One counter operation of QueryBorrowChecked::borrow, called by iter(); a
\* refused borrow is fatal to the unit; after the last one borrowed is true.
Unit_borrow_step(u) ==
    /\ unit[u].pc \in {"idle", "borrowing"}
    /\ LET ops == UnitOps(u)
       IN  IF Len(ops) = 0
           THEN /\ unit' = [unit EXCEPT ![u].pc = "borrowed", ![u].pos = 0]
                /\ UNCHANGED borrow
           ELSE LET op == ops[unit[u].pos + 1]
                    r == IF op.want = "read"
                         THEN ComponentStorageMeta_borrow(borrow[op.a][op.ty])
                         ELSE ComponentStorageMeta_borrow_mut(borrow[op.a][op.ty])
                IN  /\ borrow' = [borrow EXCEPT ![op.a][op.ty] = r.c]
                    /\ unit' = [unit EXCEPT ![u] =
                           IF ~r.ok THEN [@ EXCEPT !.pc = "panicked"]
                           ELSE IF unit[u].pos + 1 = Len(ops)
                                THEN [@ EXCEPT !.pc = "borrowed", !.pos = 0]
                                ELSE [@ EXCEPT !.pc = "borrowing", !.pos = @ + 1]]
    /\ UNCHANGED <<storageVars, ret, panicked, holder, world_len, access>>

\* The unit runs its QueryIter to the end.
Unit_iterate(u) ==
    /\ unit[u].pc = "borrowed"
    /\ unit' = [unit EXCEPT ![u].pc = "iterated"]
    /\ UNCHANGED <<storageVars, ret, panicked, borrow, holder, world_len, access>>

\* One counter operation of QueryBorrowChecked's drop.
Unit_release_step(u) ==
    /\ unit[u].pc \in {"borrowed", "iterated", "releasing"}
    /\ LET ops == UnitOps(u)
       IN  IF Len(ops) = 0
           THEN /\ unit' = [unit EXCEPT ![u].pc = "idle", ![u].pos = 0]
                /\ UNCHANGED borrow
           ELSE LET op == ops[unit[u].pos + 1]
                IN  /\ borrow' = [borrow EXCEPT ![op.a][op.ty] =
                                      IF op.want = "read" THEN ComponentStorageMeta_release(@)
                                      ELSE ComponentStorageMeta_release_mut(@)]
                    /\ unit' = [unit EXCEPT ![u] =
                           IF unit[u].pos + 1 = Len(ops)
                           THEN [@ EXCEPT !.pc = "idle", !.pos = 0]
                           ELSE [@ EXCEPT !.pc = "releasing", !.pos = @ + 1]]
    /\ UNCHANGED <<storageVars, ret, panicked, holder, world_len, access>>

\* Every unit has one query and the access that query declares in a world of
\* all the archetypes.
InitUnits ==
    /\ InitStorage
    /\ world_len = Cardinality(AllArchetypes)
    /\ unit \in [Units -> {[q |-> q, pc |-> "idle", pos |-> 0] : q \in UnitQueries}]
    /\ access = [u \in Units |-> set_access_for_query(DefaultAccess, unit[u].q, world_len)]

NextUnits ==
    \/ \E u \in Units : Unit_borrow_step(u)
    \/ \E u \in Units : Unit_iterate(u)
    \/ \E u \in Units : Unit_release_step(u)

SpecUnits == InitUnits /\ [][NextUnits]_vars

\* The positions in UnitOps(u) of the borrows unit u holds.
HeldIdx(u) ==
    CASE unit[u].pc \in {"borrowing", "panicked"} -> 1..unit[u].pos
      [] unit[u].pc \in {"borrowed", "iterated"} -> 1..Len(UnitOps(u))
      [] unit[u].pc = "releasing" -> (unit[u].pos + 1)..Len(UnitOps(u))
      [] OTHER -> {}

\* Unit u holds a borrow of kind want on ty's storage of archetype a.
Holds(u, a, ty, want) ==
    \E k \in HeldIdx(u) : UnitOps(u)[k] = [a |-> a, ty |-> ty, want |-> want]

\* The query borrows one storage twice, at least once exclusively.
SelfColliding(q) ==
    \E a \in AllArchetypes :
        LET ops == Fetch_borrow(q, a)
        IN  \E i, j \in 1..Len(ops) :
                i # j /\ ops[i].ty = ops[j].ty /\ "write" \in {ops[i].want, ops[j].want}

MaxHandles == 2

\* The calls of get one handle receives.
MaxCalls == 3

\* The queries of the system that constructs the handles: plain reads and
\* writes, shapes that name one type twice, and shapes that reach a different
\* set of storages in each archetype.
HandleQueries ==
    {Q_Entity, Q_Ref("X"), Q_Mut("X"), Q_Mut("Y"),
     Q_Tuple(<<Q_Ref("X"), Q_Mut("X")>>),
     Q_Tuple(<<Q_Mut("X"), Q_Ref("X")>>),
     Q_Tuple(<<Q_Mut("Y"), Q_Mut("Y")>>),
     Q_Tuple(<<Q_Ref("X"), Q_Ref("Y")>>),
     Q_Tuple(<<Q_Option(Q_Mut("X")), Q_Ref("Y")>>),
     Q_With("Z", Q_Mut("Y")),
     Q_Or(<<Q_Mutated("X"), Q_Mutated("Y")>>)}

\* Archetype::borrow / borrow_mut called for each of ops in turn on the
\* counters b; a refused one panics, so the later ones are never made.  The
\* result: the counters left, the calls made, and whether all were granted.
RECURSIVE BorrowAll(_, _, _)
BorrowAll(ops, b, n) ==
    IF n = 0 THEN [ok |-> TRUE, b |-> b, log |-> <<>>]
    ELSE LET r == BorrowAll(ops, b, n - 1)
             op == ops[n]
             c == IF op.want = "read" THEN ComponentStorageMeta_borrow(r.b[op.a][op.ty])
                  ELSE ComponentStorageMeta_borrow_mut(r.b[op.a][op.ty])
         IN  IF ~r.ok THEN r
             ELSE [ok |-> c.ok, b |-> [r.b EXCEPT ![op.a][op.ty] = c.c],
                   log |-> Append(r.log, [op |-> "borrow", a |-> op.a, ty |-> op.ty,
                                          want |-> op.want, ok |-> c.ok])]

\* Archetype::release / release_mut called for each of ops in turn.
RECURSIVE ReleaseAll(_, _, _)
ReleaseAll(ops, b, n) ==
    IF n = 0 THEN [b |-> b, log |-> <<>>]
    ELSE LET r == ReleaseAll(ops, b, n - 1)
             op == ops[n]
         IN  [b |-> [r.b EXCEPT ![op.a][op.ty] =
                        IF op.want = "read" THEN ComponentStorageMeta_release(@)
                        ELSE ComponentStorageMeta_release_mut(@)],
              log |-> Append(r.log, [op |-> "release", a |-> op.a, ty |-> op.ty,
                                     want |-> op.want, ok |-> TRUE])]

\* The two loops of QueryBorrowChecked::borrow and of its drop: Fetch::borrow
\* (Fetch::release) for each archetype of immutable.ones(), then of
\* mutable.ones().
QueryBorrowChecked_ops(q, acc) ==
    LET order == BorrowOrder(acc)
    IN  Concat([k \in 1..Len(order) |-> Fetch_borrow(q, order[k])], Len(order))

\* The system whose query the handles are constructed from.
System == CHOOSE u \in Units : \A v \in Units : u <= v

\* The constructors QueryBorrow::new, QueryBorrowChecked::new and
\* QueryOneChecked::new: borrowed is false.
Handle_new(kind, q, a, index) ==
    /\ handle.st \in {"none", "dropped"} /\ ~panicked
    /\ handle.n < MaxHandles
    /\ handle' = [kind |-> kind, q |-> q, a |-> a, index |-> index, borrowed |-> FALSE,
                  st |-> "new", calls |-> 0, base |-> borrow, n |-> handle.n + 1]
    /\ hlog' = <<>>

\* World::query: a QueryBorrow of the system's query.
World_query ==
    /\ unit[System].pc = "idle"
    /\ Handle_new("QueryBorrow", unit[System].q, 0, 0)
    /\ ret' = [op |-> "query", r |-> "Ok"]
    /\ UNCHANGED <<storageVars0, panicked, borrow, holder, world_len, access, unit>>

\* GenericQuery::iter: a QueryBorrowChecked with the system's archetype access.
GenericQuery_iter ==
    /\ unit[System].pc = "idle"
    /\ Handle_new("QueryBorrowChecked", unit[System].q, 0, 0)
    /\ ret' = [op |-> "iter", r |-> "Ok"]
    /\ UNCHANGED <<storageVars0, panicked, borrow, holder, world_len, access, unit>>

\* World::get_entity_location.
get_entity_location(e) ==
    IF e \in Placed
    THEN LET a == CHOOSE x \in Archetypes : \E k \in 1..Len(entities[x]) : entities[x][k] = e
         IN  Some([archetype |-> a,
                   index |-> (CHOOSE k \in 1..Len(entities[a]) : entities[a][k] = e) - 1])
    ELSE None

\* GenericQuery::entity(e): a QueryOneChecked for the row of e if the system's
\* access covers its archetype, else an error and no handle.
GenericQuery_entity(e) ==
    /\ unit[System].pc = "idle"
    /\ handle.st \in {"none", "dropped"} /\ ~panicked
    /\ handle.n < MaxHandles
    /\ LET l == get_entity_location(e)
       IN  IF ~l.some
           THEN /\ ret' = [op |-> "entity", r |-> "NoSuchEntity"]
                /\ UNCHANGED handleVars
           ELSE IF contains(immutable(access[System]), l.v.archetype)
                       \/ contains(access[System].mutable, l.v.archetype)
                THEN /\ Handle_new("QueryOneChecked", unit[System].q, l.v.archetype, l.v.index)
                     /\ ret' = [op |-> "entity", r |-> "Ok"]
                ELSE /\ ret' = [op |-> "entity", r |-> "CannotReadArchetype"]
                     /\ UNCHANGED handleVars
    /\ UNCHANGED <<storageVars0, panicked, borrow, holder, world_len, access, unit>>


QueryBorrow_borrow_again(h) ==
    [h EXCEPT !.borrowed = TRUE, !.st = "iterating", !.calls = @ + 1]

\* QueryBorrow::borrow, which iter and iter_batched call first: a second call
\* on the handle panics; no counter is touched.
QueryBorrow_borrow(h) ==
    IF h.borrowed THEN [h EXCEPT !.st = "panicked", !.calls = @ + 1]
    ELSE [h EXCEPT !.borrowed = TRUE, !.st = "iterating", !.calls = @ + 1]

\* QueryBorrow::iter and QueryBorrow::iter_batched.
QueryBorrow_iter(entry) ==
    /\ handle.kind = "QueryBorrow" /\ handle.st \in {"new", "iterating"}
    /\ handle' = QueryBorrow_borrow(handle)
    /\ ret' = [op |-> entry, r |-> IF handle'.st = "panicked" THEN "panic" ELSE "Ok"]
    /\ panicked' = (handle'.st = "panicked")
    /\ UNCHANGED <<storageVars0, hlog, borrow, holder, world_len, access, unit>>

\* QueryBorrowChecked::borrow, which iter and par_iter call first: a second
\* call on the handle panics; else every Fetch::borrow of the two loops is
\* made, and borrowed is set once all were granted.
QueryBorrowChecked_borrow(h, b, acc) ==
    IF h.borrowed
    THEN [h |-> [h EXCEPT !.st = "panicked", !.calls = @ + 1], b |-> b, log |-> <<>>]
    ELSE LET ops == QueryBorrowChecked_ops(h.q, acc)
             r == BorrowAll(ops, b, Len(ops))
         IN  [h |-> IF r.ok THEN [h EXCEPT !.borrowed = TRUE, !.st = "iterating", !.calls = @ + 1]
                    ELSE [h EXCEPT !.st = "panicked", !.calls = @ + 1],
              b |-> r.b, log |-> r.log]

\* QueryBorrowChecked::iter and QueryBorrowChecked::par_iter.
QueryBorrowChecked_iter(entry) ==
    /\ handle.kind = "QueryBorrowChecked" /\ handle.st \in {"new", "iterating"}
    /\ LET r == QueryBorrowChecked_borrow(handle, borrow, access[System])
       IN  /\ handle' = r.h
           /\ borrow' = r.b
           /\ hlog' = hlog \o r.log
    /\ ret' = [op |-> entry, r |-> IF handle'.st = "panicked" THEN "panic" ELSE "Ok"]
    /\ panicked' = (handle'.st = "panicked")
    /\ UNCHANGED <<storageVars0, holder, world_len, access, unit>>

\* QueryOneChecked::get: None if Fetch::get is None; else borrowed is set,
\* Fetch::borrow is called for the archetype, and the item of the row returned.
QueryOneChecked_get ==
    /\ handle.kind = "QueryOneChecked" /\ handle.st \in {"new", "got"}
    /\ handle.calls < MaxCalls
    /\ IF ~Fetch_get(handle.q, handle.a)
       THEN /\ handle' = [handle EXCEPT !.calls = @ + 1]
            /\ ret' = [op |-> "get", r |-> None]
            /\ UNCHANGED <<borrow, hlog, panicked>>
       ELSE LET ops == Fetch_borrow(handle.q, handle.a)
                r == BorrowAll(ops, borrow, Len(ops))
            IN  /\ handle' = [handle EXCEPT !.borrowed = TRUE, !.calls = @ + 1,
                                            !.st = IF r.ok THEN "got" ELSE "panicked"]
                /\ borrow' = r.b
                /\ hlog' = hlog \o r.log
                /\ panicked' = ~r.ok
                /\ ret' = [op |-> "get",
                           r |-> IF r.ok
                                 THEN Some(Fetch_next(handle.q, World,
                                                      Fetch_at(handle.q, handle.a, handle.index),
                                                      1).item)
                                 ELSE "panic"]
    /\ UNCHANGED <<storageVars0, holder, world_len, access, unit>>

\* The handle goes out of scope, also when a panic unwinds: QueryBorrow has no
\* destructor; QueryBorrowChecked and QueryOneChecked release, if borrowed is
\* set, what their borrow loops name.
Handle_drop ==
    /\ handle.st \in {"new", "iterating", "got", "panicked"}
    /\ LET ops == IF ~handle.borrowed THEN <<>>
                  ELSE CASE handle.kind = "QueryBorrowChecked" ->
                                QueryBorrowChecked_ops(handle.q, access[System])
                         [] handle.kind = "QueryOneChecked" -> Fetch_borrow(handle.q, handle.a)
                         [] OTHER -> <<>>
           r == ReleaseAll(ops, borrow, Len(ops))
       IN  /\ borrow' = r.b
           /\ hlog' = hlog \o r.log
    /\ handle' = [handle EXCEPT !.st = "dropped"]
    /\ diter' = NoDynamicIter
    /\ UNCHANGED <<storageVars1,
                   ret, panicked, holder, world_len, access, unit>>

\* --------------------------------------------------------- dynamic queries

\* The length of each component list of a dynamic query.
MaxIds == 2

\* The component lists of a dynamic query: any ids, in any order, repeats too.
IdLists == UNION {[1..n -> Types] : n \in 0..MaxIds}

\* The DynamicQuery values a caller builds: the three fields are public.
DynamicQueries ==
    {[entity |-> e, immutable |-> i, mutable |-> m] : e \in BOOLEAN, i \in IdLists, m \in IdLists}

\* DynamicQuery::access: Read once an immutable component is in the archetype,
\* Write once a mutable one is, the later assignment winning.
DynamicQuery_access(dq, a) ==
    IF \E k \in 1..Len(dq.mutable) : has_type(a, dq.mutable[k]) THEN Some(Write)
    ELSE IF \E k \in 1..Len(dq.immutable) : has_type(a, dq.immutable[k]) THEN Some(Read)
    ELSE None

Multiples_across(dq) ==
    \E j \in 1..Len(dq.immutable), k \in 1..Len(dq.mutable) : dq.immutable[j] = dq.mutable[k]

\* The validation at the head of get_fetch: the ids of immutable, then of
\* mutable, go into one set, and an id already in it is fatal.
Multiples(dq) ==
    LET ids == dq.immutable \o dq.mutable
    IN  \E j, k \in 1..Len(ids) : j < k /\ ids[j] = ids[k]

\* The pointers get_fetch pushes for the components of list l: one per
\* component the archetype stores, at offset.
DynamicPtrs(l, a, offset) ==
    [k \in 1..Len(SelectSeq(l, LAMBDA id : has_type(a, id))) |-> offset]

\* DynamicQuery::get_fetch(archetype, offset): fatal on multiples; else Some
\* fetch iff a listed component is stored and none is missing.
DynamicQuery_get_fetch(dq, a, offset) ==
    IF Multiples(dq) THEN [panic |-> TRUE, some |-> FALSE, f |-> <<>>]
    ELSE LET f == [a |-> a, entity |-> IF dq.entity THEN Some(0) ELSE None,
                   immutable |-> DynamicPtrs(dq.immutable, a, offset),
                   mutable |-> DynamicPtrs(dq.mutable, a, offset)]
             matches_any == Len(f.immutable) + Len(f.mutable) > 0
             missing_any == \/ Len(f.immutable) < Len(dq.immutable)
                            \/ Len(f.mutable) < Len(dq.mutable)
         IN  [panic |-> FALSE, some |-> matches_any /\ ~missing_any, f |-> f]

\* DynamicQuery::should_skip: nothing is skipped.
DynamicQuery_should_skip(dq, item_index) == FALSE

\* DynamicQueryFetch::fetch(index): the entity if asked for, and the value of
\* every listed component, each through its pointer.
DynamicQueryFetch_fetch(dq, w, f, index) ==
    [entity |-> IF f.entity.some THEN Some(Deref(w.entities[f.a], f.entity.v + index)) ELSE None,
     immutable |-> [k \in 1..Min(Len(dq.immutable), Len(f.immutable)) |->
                       Deref(w.storage[f.a][dq.immutable[k]], f.immutable[k] + index)],
     mutable |-> [k \in 1..Min(Len(dq.mutable), Len(f.mutable)) |->
                     Deref(w.storage[f.a][dq.mutable[k]], f.mutable[k] + index)]]

\* DynamicChunkIter::next.
RECURSIVE DynamicChunkIter_next(_, _, _)
DynamicChunkIter_next(dq, w, c) ==
    IF c.position = c.len THEN [some |-> FALSE, a |-> c.a, row |-> 0, item |-> None, c |-> c]
    ELSE IF DynamicQuery_should_skip(dq, c.position)
         THEN DynamicChunkIter_next(dq, w, [c EXCEPT !.position = @ + 1])
         ELSE [some |-> TRUE, a |-> c.a, row |-> c.position,
               item |-> DynamicQueryFetch_fetch(dq, w, c.f, c.position),
               c |-> [c EXCEPT !.position = @ + 1]]

\* DynamicQueryIter::next on the iterator it = [archetype_index, iter].
RECURSIVE DynamicQueryIter_next(_, _, _)
DynamicQueryIter_next(dq, w, it) ==
    IF ~it.iter.some
    THEN IF it.archetype_index \notin DOMAIN w.entities
         THEN [panic |-> FALSE, some |-> FALSE, a |-> 0, row |-> 0, item |-> None, it |-> it]
         ELSE LET a == it.archetype_index
                  g == DynamicQuery_get_fetch(dq, a, 0)
                  it1 == [archetype_index |-> a + 1,
                          iter |-> IF g.some
                                   THEN [some |-> TRUE, a |-> a, position |-> 0,
                                         len |-> Len(w.entities[a]), f |-> g.f]
                                   ELSE NoDynamicChunk]
              IN  IF g.panic
                  THEN [panic |-> TRUE, some |-> FALSE, a |-> a, row |-> 0, item |-> None,
                        it |-> [it EXCEPT !.archetype_index = a + 1]]
                  ELSE DynamicQueryIter_next(dq, w, it1)
    ELSE LET r == DynamicChunkIter_next(dq, w, it.iter)
         IN  IF ~r.some
             THEN DynamicQueryIter_next(dq, w, [it EXCEPT !.iter = NoDynamicChunk])
             ELSE [panic |-> FALSE, some |-> TRUE, a |-> r.a, row |-> r.row, item |-> r.item,
                   it |-> [it EXCEPT !.iter = r.c]]

\* DynamicQueryBorrow::new for the query dq: borrowed is false.
DynamicQueryBorrow_new(dq) ==
    /\ unit[System].pc = "dynamic"
    /\ Handle_new("DynamicQueryBorrow", dq, 0, 0)
    /\ ret' = [op |-> "new", r |-> "Ok"]
    /\ UNCHANGED <<storageVars0, panicked, borrow, holder, world_len, access, unit>>

\* DynamicQueryBorrow::iter_mut: a second call on the handle panics; else a
\* DynamicQueryIter at the start.
DynamicQueryBorrow_iter_mut ==
    /\ handle.kind = "DynamicQueryBorrow" /\ handle.st \in {"new", "iterating"}
    /\ IF handle.borrowed
       THEN /\ handle' = [handle EXCEPT !.st = "panicked", !.calls = @ + 1]
            /\ diter' = NoDynamicIter
       ELSE /\ handle' = [handle EXCEPT !.borrowed = TRUE, !.st = "iterating", !.calls = @ + 1]
            /\ diter' = [NoDynamicIter EXCEPT !.on = TRUE]
    /\ ret' = [op |-> "iter_mut", r |-> IF handle'.st = "panicked" THEN "panic" ELSE "Ok"]
    /\ panicked' = (handle'.st = "panicked")
    /\ UNCHANGED <<storageVars1,
                   hlog, borrow, holder, world_len, access, unit>>

\* One call of DynamicQueryIter::next by the caller: the result, if any, is
\* recorded with the row it came from; a None return is counted.
DynamicIterator_next ==
    /\ handle.kind = "DynamicQueryBorrow" /\ handle.st = "iterating"
    /\ diter.on /\ diter.nones < MaxNones
    /\ LET r == DynamicQueryIter_next(handle.q, World, diter.it)
       IN  /\ diter' = [diter EXCEPT !.it = r.it,
                                     !.nones = IF r.some \/ r.panic THEN @ ELSE @ + 1,
                                     !.yielded = IF r.some
                                                 THEN Append(@, [a |-> r.a, row |-> r.row,
                                                                 item |-> r.item])
                                                 ELSE @]
           /\ handle' = [handle EXCEPT !.st = IF r.panic THEN "panicked" ELSE @]
           /\ panicked' = r.panic
           /\ ret' = [op |-> "next",
                      r |-> IF r.panic THEN "panic" ELSE IF r.some THEN Some(r.item) ELSE None]
    /\ UNCHANGED <<storageVars1,
                   hlog, borrow, holder, world_len, access, unit>>

\* The borrows other code holds while the handles live: none, or one shared
\* or exclusive borrow of one storage.
ForeignBorrows ==
    {[st |-> "none", a |-> 0, ty |-> "X", want |-> "none"]} \cup
    {[st |-> want, a |-> a, ty |-> ty, want |-> want] :
        a \in Archetypes, ty \in Types, want \in {"read", "write"}}

\* A world of one or two spawned entities, one per archetype, whose trackers
\* were cleared.  The caller is a system with one query and the access the
\* query declares, possibly beside a borrow held elsewhere, or it is code that
\* executes dynamic queries.  No handle exists yet.
InitHandle ==
    /\ \E two \in BOOLEAN :
           /\ entities = [a \in Archetypes |-> IF a = 0 THEN <<1>> ELSE IF two THEN <<2>> ELSE <<>>]
           /\ storage = [a \in Archetypes |->
                            [ty \in TypesOf(a) |->
                                [k \in 1..Len(entities[a]) |-> NewValue(entities[a][k], ty)]]]
           /\ added_entities = [a \in Archetypes |->
                                   [ty \in TypesOf(a) |-> [k \in 1..Len(entities[a]) |-> FALSE]]]
           /\ mutated_entities = added_entities
    /\ pending = NoPending
    /\ mutref = NoMut
    /\ location = NoLocation
    /\ ret = NoRet
    /\ dropped = <<>>
    /\ panicked = FALSE
    /\ \/ \E q \in HandleQueries :
              unit = [u \in Units |-> IF u = System THEN [q |-> q, pc |-> "idle", pos |-> 0]
                                      ELSE NoUnit]
       \/ unit = [u \in Units |-> IF u = System THEN [NoUnit EXCEPT !.pc = "dynamic"]
                                   ELSE NoUnit]
    /\ \E f \in ForeignBorrows :
           /\ f.st # "none" => has_type(f.a, f.ty) /\ unit[System].pc = "idle"
           /\ holder = [h \in Holders |-> IF h = 1 THEN f ELSE NoHolder]
           /\ borrow = [a \in AllArchetypes |->
                           [ty \in TypesOf(a) |->
                               IF f.st = "none" \/ f.a # a \/ f.ty # ty THEN 0
                               ELSE IF f.st = "read" THEN 1 ELSE 0 - 1]]
    /\ world_len = Cardinality(Archetypes)
    /\ access = [u \in Units |->
                    IF u = System THEN set_access_for_query(DefaultAccess, unit[u].q, world_len)
                    ELSE DefaultAccess]
    /\ NoIteration

NextHandle ==
    \/ World_query
    \/ GenericQuery_iter
    \/ \E e \in Entities : GenericQuery_entity(e)
    \/ \E entry \in {"iter", "iter_batched"} : QueryBorrow_iter(entry)
    \/ \E entry \in {"iter", "par_iter"} : QueryBorrowChecked_iter(entry)
    \/ QueryOneChecked_get
    \/ \E dq \in DynamicQueries : DynamicQueryBorrow_new(dq)
    \/ DynamicQueryBorrow_iter_mut
    \/ DynamicIterator_next
    \/ Handle_drop

SpecHandle == InitHandle /\ [][NextHandle]_vars


\* ------------------------------------------------------ handle properties

\* A call of iter, iter_batched, par_iter or iter_mut on the handle.
EntryCall ==
    \/ \E entry \in {"iter", "iter_batched"} : QueryBorrow_iter(entry)
    \/ \E entry \in {"iter", "par_iter"} : QueryBorrowChecked_iter(entry)
    \/ DynamicQueryBorrow_iter_mut

\* The last counter operation the handle made was a refused borrow.
Refused(log) == log # <<>> /\ ~log[Len(log)].ok

\* C21 as stated: a call of iter / iter_batched / par_iter / iter_mut on a
\* QueryBorrow, QueryBorrowChecked or DynamicQueryBorrow panics if it is the
\* second call on the handle, and the first call always succeeds.
SingleUseFirstSucceeds ==
    [][EntryCall => ((handle'.st = "panicked") <=> (handle.calls >= 1))]_vars

\* C21 amended: a second call of iter / iter_batched / par_iter / iter_mut on
\* the same handle panics and touches no counter; the first call on a
\* QueryBorrow or a DynamicQueryBorrow always succeeds, and the first call on
\* a QueryBorrowChecked succeeds unless a counter borrow it makes is refused.
SingleUse ==
    [][EntryCall =>
          /\ handle.calls >= 1 => handle'.st = "panicked" /\ borrow' = borrow
          /\ handle.calls = 0 =>
                 ((handle'.st = "panicked") <=>
                      (handle.kind = "QueryBorrowChecked" /\ Refused(hlog')))
          /\ handle'.st # "panicked" => handle'.st = "iterating" /\ handle'.borrowed]_vars

\* A second call has panicked on each kind of handle's like: here on a
\* QueryBorrowChecked whose first call had been granted its borrows.
SecondCallPanicked ==
    /\ handle.kind = "QueryBorrowChecked" /\ handle.calls = 2
    /\ handle.st = "panicked" /\ handle.borrowed /\ hlog # <<>>


\* The archetypes of the world in which the query q reads or writes a storage.
AccessedBy(q) == {a \in 0..(world_len - 1) : Fetch_access(q, a) \in {Read, Write}}

\* The borrows among the counter operations of log.
BorrowsOf(log) == SelectSeq(log, LAMBDA e : e.op = "borrow")

\* The log's borrows cover the archetypes q accesses, each with the borrows
\* Fetch::borrow makes there, archetype after archetype in ascending order.
InArchetypeOrder(q, log) ==
    LET b == BorrowsOf(log)
    IN  /\ {b[k].a : k \in 1..Len(b)} = AccessedBy(q)
        /\ \A j, k \in 1..Len(b) : j < k => b[j].a <= b[k].a
        /\ \A a \in AccessedBy(q) :
               Len(SelectSeq(b, LAMBDA e : e.a = a)) = Len(Fetch_borrow(q, a))

\* C22: once iter / iter_batched / par_iter of a QueryBorrow or
\* QueryBorrowChecked has returned (no row yielded yet) the handle has acquired
\* the counters of every archetype its query accesses, each archetype once
\* and in archetype order; dropping the handle after that leaves every
\* counter at its value before the iteration started; and dropping a handle
\* that was never iterated releases nothing.
BorrowsUpFrontInOrder ==
    /\ [](handle.kind \in {"QueryBorrow", "QueryBorrowChecked"} =>
             /\ handle.st = "iterating" => InArchetypeOrder(handle.q, hlog)
             /\ handle.st = "dropped" /\ ~panicked => borrow = handle.base)
    /\ [][Handle_drop /\ handle.st = "new" => borrow' = borrow /\ hlog' = hlog]_vars


\* In an archetype it accesses, the query borrows one storage twice, at least
\* once exclusively: (&mut T, &T), (&T, &mut T), (&mut T, &mut T).
Colliding(q) ==
    \E a \in AccessedBy(q) :
        LET ops == Fetch_borrow(q, a)
        IN  \E i, j \in 1..Len(ops) :
                i # j /\ ops[i].ty = ops[j].ty /\ "write" \in {ops[i].want, ops[j].want}

\* C23: the first iter / par_iter of a QueryBorrowChecked whose query shape
\* requests conflicting access to one component type fails fatally, and the
\* failed call leaves every borrow counter as it was.
CollisionFailsClean ==
    [][\A entry \in {"iter", "par_iter"} :
           QueryBorrowChecked_iter(entry) /\ handle.calls = 0 /\ Colliding(handle.q) =>
               handle'.st = "panicked" /\ borrow' = borrow]_vars


\* C24: a call of QueryOneChecked::get on a handle that get was already
\* called on panics, whatever the query shape; get on an archetype that does
\* not satisfy the query returns None and acquires no borrow; and the borrow
\* a successful get acquired is released exactly once when the handle is
\* dropped, every counter being back at its value before the get.
GetOnlyOnce ==
    /\ [][QueryOneChecked_get =>
             /\ handle.calls >= 1 => handle'.st = "panicked"
             /\ ~Fetch_get(handle.q, handle.a) /\ handle.calls = 0 =>
                    ret'.r = None /\ borrow' = borrow /\ hlog' = hlog]_vars
    /\ [](handle.kind = "QueryOneChecked" /\ handle.st = "dropped" /\ ~panicked =>
             borrow = handle.base)


\* The dynamic query names a component id in both lists or twice in one.
Repeats(dq) ==
    \/ \E j \in 1..Len(dq.immutable), k \in 1..Len(dq.mutable) : dq.immutable[j] = dq.mutable[k]
    \/ \E j, k \in 1..Len(dq.immutable) : j # k /\ dq.immutable[j] = dq.immutable[k]
    \/ \E j, k \in 1..Len(dq.mutable) : j # k /\ dq.mutable[j] = dq.mutable[k]

\* Every component the dynamic query lists is stored in archetype a, and it
\* lists at least one.
AllListed(dq, a) ==
    /\ Len(dq.immutable) + Len(dq.mutable) > 0
    /\ \A k \in 1..Len(dq.immutable) : has_type(a, dq.immutable[k])
    /\ \A k \in 1..Len(dq.mutable) : has_type(a, dq.mutable[k])

LacksListed(dq, a) ==
    \/ \E k \in 1..Len(dq.immutable) : ~has_type(a, dq.immutable[k])
    \/ \E k \in 1..Len(dq.mutable) : ~has_type(a, dq.mutable[k])

\* C26: DynamicQuery::access is None for an archetype that lacks any listed
\* component, Write for one that has them all when the mutable list is not
\* empty, Read for one that has them all when only the immutable list is not
\* empty; so for a query without repeated ids access is Some exactly on the
\* archetypes get_fetch gives the iterator a fetch for.
DynamicAccessTable ==
    handle.kind = "DynamicQueryBorrow" =>
        \A a \in Archetypes :
            LET acc == DynamicQuery_access(handle.q, a)
            IN  /\ LacksListed(handle.q, a) => acc = None
                /\ AllListed(handle.q, a) /\ handle.q.mutable # <<>> => acc = Some(Write)
                /\ AllListed(handle.q, a) /\ handle.q.mutable = <<>> => acc = Some(Read)
                /\ ~Repeats(handle.q) =>
                       (acc.some <=> DynamicQuery_get_fetch(handle.q, a, 0).some)


\* ------------------------------------------------ component info registry

\* What the registry leaves alone.
notRegVars == <<entities, storage, added_entities, mutated_entities, pending, mutref,
                location, ret, dropped, panicked, borrow, holder, world_len, access, unit,
                qiter, yielded, biter, batches, handleVars, soaVars>>

\* A thread calls register_dynamic_component(id, layout, None) or
\* get_dynamic_component_info(id): it is about to take the mutex.
Registry_call(t, op, id, layout) ==
    /\ reg_thread[t].pc = "idle"
    /\ Len(reg_log) + Cardinality({u \in RegThreads : reg_thread[u].pc # "idle"}) < MaxRegCalls
    /\ reg_thread' = [reg_thread EXCEPT ![t] = [pc |-> "lock", op |-> op, id |-> id,
                                                layout |-> layout, r |-> None]]
    /\ UNCHANGED <<dynamic_components, reg_lock, reg_log, notRegVars>>

\* self.dynamic_components.lock(): granted when no thread holds the mutex.
Registry_lock(t) ==
    /\ reg_thread[t].pc = "lock"
    /\ reg_lock = 0
    /\ reg_lock' = t
    /\ reg_thread' = [reg_thread EXCEPT ![t].pc = "locked"]
    /\ UNCHANGED <<dynamic_components, reg_log, notRegVars>>

register_overwrites(map, id, layout) ==
    [map |-> [map EXCEPT ![id] = Some([id |-> id, layout |-> layout])],
     r |-> Some([id |-> id, layout |-> layout])]

\* The body of register_dynamic_component under the mutex: None if the id is
\* a key already, else the info is inserted and returned.
register_dynamic_component(map, id, layout) ==
    IF map[id].some THEN [map |-> map, r |-> None]
    ELSE LET info == [id |-> id, layout |-> layout]
         IN  [map |-> [map EXCEPT ![id] = Some(info)], r |-> Some(info)]

\* The body of get_dynamic_component_info under the mutex: a copy of the entry.
get_dynamic_component_info(map, id) == map[id]

\* The thread runs the body of its call and returns, which drops the guard.
\* The log entry also names the threads inside the same call for the same id.
Registry_return(t) ==
    /\ reg_thread[t].pc = "locked" /\ reg_lock = t
    /\ LET c == reg_thread[t]
           r == IF c.op = "register"
                THEN register_dynamic_component(dynamic_components, c.id, c.layout)
                ELSE [map |-> dynamic_components,
                      r |-> get_dynamic_component_info(dynamic_components, c.id)]
       IN  /\ dynamic_components' = r.map
           /\ reg_thread' = [reg_thread EXCEPT ![t] = [c EXCEPT !.pc = "idle", !.r = r.r]]
           /\ reg_log' = Append(reg_log,
                  [t |-> t, op |-> c.op, id |-> c.id, layout |-> c.layout, r |-> r.r,
                   beside |-> {u \in RegThreads \ {t} :
                                  /\ reg_thread[u].pc # "idle"
                                  /\ reg_thread[u].op = c.op /\ reg_thread[u].id = c.id}])
    /\ reg_lock' = 0
    /\ UNCHANGED notRegVars

NextRegistry ==
    \/ \E t \in RegThreads, op \in {"register", "get"}, id \in ExternalIds, layout \in Layouts :
           Registry_call(t, op, id, layout)
    \/ \E t \in RegThreads : Registry_lock(t)
    \/ \E t \in RegThreads : Registry_return(t)

SpecRegistry == Init /\ [][NextRegistry]_vars

\* The registrations of id among the calls that returned, in order.
Registrations(id) == SelectSeq(reg_log, LAMBDA c : c.op = "register" /\ c.id = id)

\* C27: for every external id, the first registration that returns gets
\* Some(info), with the id and layout it passed, and every later one None;
\* an info once registered never changes, and get_dynamic_component_info
\* returns it (None before any registration); of several threads that
\* register one id at the same time exactly one gets Some.
RegisterOnce ==
    /\ [](\A id \in ExternalIds :
             LET regs == Registrations(id)
             IN  /\ \A k \in 1..Len(regs) :
                        regs[k].r = IF k = 1 THEN Some([id |-> id, layout |-> regs[1].layout])
                                    ELSE None
                 /\ dynamic_components[id] = IF regs = <<>> THEN None ELSE regs[1].r)
    /\ [][\A t \in RegThreads :
             Registry_return(t) /\ reg_thread[t].op = "get" =>
                 reg_thread'[t].r = dynamic_components[reg_thread[t].id]
                 /\ dynamic_components' = dynamic_components]_vars
    /\ [][\A id \in ExternalIds :
             dynamic_components[id].some => dynamic_components'[id] = dynamic_components[id]]_vars

\* Two threads were inside register_dynamic_component for id 1 at the same
\* time, with different layouts; both have returned, one with Some and the
\* other with None, and a later get returned the info of the first.
ConcurrentRegistration ==
    /\ Len(reg_log) = 3
    /\ reg_log[1].op = "register" /\ reg_log[2].op = "register" /\ reg_log[3].op = "get"
    /\ reg_log[1].id = 1 /\ reg_log[2].id = 1 /\ reg_log[3].id = 1
    /\ reg_log[1].beside = {reg_log[2].t} /\ reg_log[1].layout # reg_log[2].layout
    /\ reg_log[1].r.some /\ ~reg_log[2].r.some
    /\ reg_log[3].r = reg_log[1].r

\* ------------------------------------------------ structure-of-arrays batch spawn

\* The batches one run spawns.
MaxSpawns == 2

\* The longest component array a batch supplies.
MaxArrayLen == 1

\* The most room Vec::reserve adds beyond what it was asked for.
MaxSlack == 1

\* soa_impl!(A, B): the batch of two component arrays.
Arity == 2

\* mem::align_of::<T>() of the component types: X and Y are four-byte words, Z an
\* eight-byte one.
align_of(ty) == IF ty = "Z" THEN 8 ELSE 4

\* ComponentStorage::item_size: mem::size_of::<T>().
item_size(ty) == align_of(ty)

\* TypeId::of::<T>(), in the order TypeId compares.
TypeId_of(ty) == CASE ty = "X" -> 1 [] ty = "Y" -> 2 [] OTHER -> 3

\* The component types of a batch, in the order the arrays are supplied, and the
\* length of each array.
SoaItems == [1..Arity -> Types]

SoaLens == [1..Arity -> 0..MaxArrayLen]

\* Element j of the array supplied in place i.
Element(i, j) == [array |-> i, elem |-> j]

\* A cell of a Vec's buffer that was never written.
Uninit == [array |-> 0, elem |-> 0]

\* What a read past the end of an array, or of bytes of another type, may find.
Junk == {[array |-> 0, elem |-> g] : g \in 1..2}

RemoveAt(s, i) == [k \in 1..(Len(s) - 1) |-> IF k < i THEN s[k] ELSE s[k + 1]]

\* slice::sort_by_key / sort_unstable_by: keys are equal only for equal types.
RECURSIVE SortBy(_, _)
SortBy(s, key) ==
    IF s = <<>> THEN <<>>
    ELSE LET i == CHOOSE i \in 1..Len(s) :
                    \A k \in 1..Len(s) :
                        \/ key[s[i]] < key[s[k]]
                        \/ key[s[i]] = key[s[k]] /\ i <= k
         IN <<s[i]>> \o SortBy(RemoveAt(s, i), key)

\* x.0.cmp(&y.0).reverse().then(x.1.cmp(&y.1)): the larger alignment first, then
\* the smaller TypeId.
by_align_then_id == [ty \in Types |-> (8 - align_of(ty)) * 4 + TypeId_of(ty)]

by_id == [ty \in Types |-> TypeId_of(ty)]

\* The key left in the order the arrays were supplied.
type_ids_as_supplied(items) == items

\* The type_ids of spawn: the batch's types sorted by alignment, then TypeId.
type_ids(items) == SortBy(items, by_align_then_id)

\* The type_info of spawn: the batch's types sorted by TypeId.
sorted_type_info(items) == SortBy(items, by_id)

\* VecComponentStorage::default() for the type: an empty Vec and empty flags.
get_storage(ty) ==
    [ty |-> ty, len |-> 0, cap |-> 0, mem |-> <<>>, added |-> <<>>, mutated |-> <<>>]

\* Archetype::new / with_grow: one storage per listed type, in the listed order;
\* type_indices maps a type to the place of its last listing.
Archetype_new(types) ==
    [type_info |-> types,
     entities |-> <<>>,
     component_storages |-> [k \in 1..Len(types) |-> get_storage(types[k])],
     type_indices |-> [ty \in {types[k] : k \in 1..Len(types)} |->
                          CHOOSE k \in 1..Len(types) :
                              /\ types[k] = ty
                              /\ \A m \in 1..Len(types) : types[m] = ty => m <= k]]

\* Vec::reserve(count): room for len + count items, and maybe more; the buffer's
\* old cells are kept.
reserve(st, count, slack) ==
    IF st.cap - st.len >= count THEN st
    ELSE [st EXCEPT !.cap = st.len + count + slack,
                    !.mem = [p \in 1..(st.len + count + slack) |->
                                 IF p <= Len(st.mem) THEN st.mem[p] ELSE Uninit]]

\* Archetype::reserve(count).
Archetype_reserve(arch, count, slack) ==
    [arch EXCEPT !.component_storages =
        [k \in DOMAIN arch.component_storages |->
            reserve(arch.component_storages[k], count, slack)]]

\* Archetype::allocate(entity) on an archetype with room: the entity is pushed and
\* every storage's flags get a row; no storage gets a value.
allocate(arch, entity) ==
    [arch EXCEPT !.entities = Append(@, entity),
                 !.component_storages =
                     [k \in DOMAIN arch.component_storages |->
                         [arch.component_storages[k] EXCEPT
                             !.added = Append(@, FALSE),
                             !.mutated = Append(@, FALSE)]]]

\* for entity in world.entities.claim(entity_count) { archetype.allocate(entity) }
RECURSIVE AllocateAll(_, _, _)
AllocateAll(arch, first, count) ==
    IF count = 0 THEN arch
    ELSE AllocateAll(allocate(arch, first), first + 1, count - 1)

\* Archetype::get_storage_dynamic(type_id): the place of the type's storage.
get_storage_dynamic(arch, ty) == arch.type_indices[ty]

\* ptr::copy_nonoverlapping(components_ptr, type_ptr, item_size * entity_count)
\* into the storage st from row start_index on: the bytes of array i, whose items
\* are of type src_ty.  Items of another size, and reads past the array's end,
\* leave junk in the cells.
copy_nonoverlapping(st, src_ty, src_len, i, start_index, entity_count, g) ==
    [st EXCEPT !.mem =
        [p \in 1..Len(st.mem) |->
            IF start_index < p /\ p <= start_index + entity_count
            THEN IF item_size(st.ty) = item_size(src_ty) /\ p - start_index <= src_len
                 THEN Element(i, p - start_index)
                 ELSE g
            ELSE st.mem[p]]]

\* The loop over the arrays, in the order supplied: array type_index goes to the
\* storage of type_ids[type_index].
RECURSIVE CopyArrays(_, _, _, _, _, _, _)
CopyArrays(arch, items, lens, type_index, start_index, entity_count, g) ==
    IF type_index > Len(items) THEN arch
    ELSE LET k == get_storage_dynamic(arch, type_ids(items)[type_index])
             copied == copy_nonoverlapping(arch.component_storages[k], items[type_index],
                                           lens[type_index], type_index, start_index,
                                           entity_count, g)
         IN CopyArrays([arch EXCEPT !.component_storages[k] = copied], items, lens,
                       type_index + 1, start_index, entity_count, g)

\* world.index.get(&type_ids): the archetype registered under the key, if any.
index_get(index, key) ==
    IF \E e \in index : e.key = key
    THEN Some((CHOOSE e \in index : e.key = key).id)
    ELSE None

\* What the batch spawn leaves alone.
notSoaVars == <<entities, storage, added_entities, mutated_entities, pending, mutref,
                location, ret, dropped, panicked, borrow, holder, world_len, access, unit,
                qiter, yielded, biter, batches, handleVars, regVars>>

\* SpawnBatch::spawn for arrays of the types items and the lengths lens.  The
\* world has nothing to flush.  A copy that ends past a storage's buffer
\* overruns the allocation: nothing is known of the program from there on.
SpawnBatch_spawn(items, lens, slack, g) ==
    /\ soa_ret.n < MaxSpawns
    /\ ~soa_ret.panic
    /\ ~soa_ret.overrun
    /\ LET entity_count == lens[Arity]
           key == type_ids(items)
           found == index_get(soa_world.index, key)
           archetype_id == IF found.some THEN found.v ELSE Len(soa_world.archetypes)
           archetypes == IF found.some THEN soa_world.archetypes
                         ELSE Append(soa_world.archetypes,
                                     Archetype_new(sorted_type_info(items)))
           reserved == Archetype_reserve(archetypes[archetype_id + 1], entity_count, slack)
           start_index == Len(reserved.entities)
           allocated == AllocateAll(reserved, soa_world.entities + 1, entity_count)
           copied == CopyArrays(allocated, items, lens, 1, start_index, entity_count, g)
       IN IF entity_count = 0
          THEN /\ soa_ret' = [NoSpawn EXCEPT !.op = "spawn", !.items = items, !.lens = lens,
                                             !.panic = TRUE, !.n = soa_ret.n + 1]
               /\ UNCHANGED soa_world
          ELSE /\ soa_world' =
                     [archetypes |-> [archetypes EXCEPT ![archetype_id + 1] = copied],
                      index |-> IF found.some THEN soa_world.index
                                ELSE soa_world.index \cup {[key |-> key, id |-> archetype_id]},
                      entities |-> soa_world.entities + entity_count,
                      archetype_generation |->
                          IF found.some THEN soa_world.archetype_generation
                          ELSE soa_world.archetype_generation + 1]
               /\ soa_ret' =
                     [op |-> "spawn", items |-> items, lens |-> lens, panic |-> FALSE,
                      created |-> ~found.some, archetype_id |-> archetype_id,
                      start_index |-> start_index, entity_count |-> entity_count,
                      overrun |-> \E k \in DOMAIN copied.component_storages :
                                      start_index + entity_count >
                                          copied.component_storages[k].cap,
                      n |-> soa_ret.n + 1]
    /\ UNCHANGED notSoaVars

NextSoa ==
    \E items \in SoaItems, lens \in SoaLens, slack \in 0..MaxSlack, g \in Junk :
        SpawnBatch_spawn(items, lens, slack, g)

SpecSoa == Init /\ [][NextSoa]_vars

\* ------------------------------------------------ batch spawn properties

\* The last step was a batch spawn.
Spawned == soa_ret.op = "spawn"

\* The arrays of the last batch are not all of one length.
LengthsDiffer == \E i, j \in 1..Arity : soa_ret.lens[i] # soa_ret.lens[j]

\* The archetype the last batch went to.
Target == soa_world.archetypes[soa_ret.archetype_id + 1]

\* The storage of the type ty in the archetype arch.
Column(arch, ty) == arch.component_storages[arch.type_indices[ty]]

\* C28: a batch spawn whose component arrays are not all of the same length
\* fails fatally and leaves the world as it was before the call.
LengthMismatchFails ==
    [][(soa_ret'.n = soa_ret.n + 1 /\ \E i, j \in 1..Arity : soa_ret'.lens[i] # soa_ret'.lens[j])
        => soa_ret'.panic /\ soa_world' = soa_world]_vars

\* C29: after a batch spawn of k rows the target archetype has k more rows, each
\* array's j-th element is at row start + j of the Column of the array's type,
\* whatever the order of the arrays, and every Column is as long as entities.
BatchInOwnColumns ==
    (Spawned /\ ~soa_ret.panic /\ ~LengthsDiffer) =>
        /\ Len(Target.entities) = soa_ret.start_index + soa_ret.entity_count
        /\ \A i \in 1..Arity, j \in 1..soa_ret.entity_count :
               /\ soa_ret.start_index + j <= Len(Column(Target, soa_ret.items[i]).mem)
               /\ Column(Target, soa_ret.items[i]).mem[soa_ret.start_index + j] = Element(i, j)
        /\ \A k \in DOMAIN Target.component_storages :
               Target.component_storages[k].len = Len(Target.entities)

\* The archetypes of the world w with the signature sig.
WithSignature(w, sig) == {a \in DOMAIN w.archetypes : w.archetypes[a].type_info = sig}

\* C30: no two archetypes of a world have the same signature; a batch spawn of a
\* signature the world has goes to the archetype that has it and adds none, and
\* a batch spawn of a signature the world lacks adds exactly one archetype.
SignatureUnique ==
    /\ [](\A a, b \in DOMAIN soa_world.archetypes :
              soa_world.archetypes[a].type_info = soa_world.archetypes[b].type_info => a = b)
    /\ [][(soa_ret'.n = soa_ret.n + 1 /\ ~soa_ret'.panic) =>
             LET sig == sorted_type_info(soa_ret'.items)
                 had == WithSignature(soa_world, sig)
             IN IF had # {}
                THEN /\ Len(soa_world'.archetypes) = Len(soa_world.archetypes)
                     /\ soa_ret'.archetype_id + 1 \in had
                ELSE /\ Len(soa_world'.archetypes) = Len(soa_world.archetypes) + 1
                     /\ WithSignature(soa_world', sig) = {soa_ret'.archetype_id + 1}]_vars

\* A second batch of the same types, supplied in the other order, went to the
\* archetype the first one created.
SecondBatchReuses ==
    /\ soa_ret.n = 2 /\ Spawned /\ ~soa_ret.panic /\ ~soa_ret.created
    /\ Len(soa_world.archetypes) = 1
    /\ soa_ret.start_index > 0
    /\ soa_ret.items # type_ids(soa_ret.items)
    /\ soa_ret.items[1] # soa_ret.items[2]

\* ------------------------------------------------ archetype construction

\* C31: no archetype holds two Columns of one type tag: Archetype::new never
\* builds one, so type_indices leads to the only Column of each tag.
OneColumnPerTag ==
    \A a \in DOMAIN soa_world.archetypes :
        LET arch == soa_world.archetypes[a]
        IN \A k, m \in DOMAIN arch.component_storages :
               arch.component_storages[k].ty = arch.component_storages[m].ty => k = m

\* ------------------------------------------------ bundles and single-row lookups

\* The most components a bundle of the model has.
MaxBundleLen == 3

\* The tuples of component types the bundle impls are generated for, repeats
\* included.
Bundles == UNION {[1..n -> Types] : n \in 1..MaxBundleLen}

\* Bundle::with_static_ids / DynamicBundle::with_ids: the ids handed to the
\* callback, sorted by descending alignment, then id.
with_static_ids(b) == SortBy(b, by_align_then_id)

\* Bundle::static_type_info / DynamicBundle::type_info: sort_by_key(|info| info.id()).
static_type_info(b) == SortBy(b, by_id)

\* What a bundle or lookup operation was given and returned.
Outcome(tag, v, b, a, index) == [tag |-> tag, v |-> v, b |-> b, a |-> a, index |-> index]

\* What the bundle operations and lookups leave alone.
notLookupVars == <<others, entities, storage, added_entities, mutated_entities, pending,
                   location, dropped>>

\* A caller asks the bundle type b for its id list.
Bundle_with_static_ids(b) ==
    /\ Idle
    /\ ret' = [op |-> "with_static_ids", r |-> Outcome("ids", with_static_ids(b), b, 0, 0)]
    /\ UNCHANGED <<notLookupVars, mutref, panicked>>

\* A caller asks the bundle type b for its TypeInfos.
Bundle_static_type_info(b) ==
    /\ Idle
    /\ ret' = [op |-> "static_type_info", r |-> Outcome("info", static_type_info(b), b, 0, 0)]
    /\ UNCHANGED <<notLookupVars, mutref, panicked>>

\* Archetype::get_with_type_state::<T>(): the storage and its flags, if the
\* archetype has the type.
get_with_type_state(a, ty) == has_type(a, ty)

\* Mut::new(archetype, index) for the type ty, index being a row of the
\* archetype: a Mut on the row, or MissingComponent naming ty.
Mut_new(a, ty, index) ==
    /\ Idle
    /\ index < len(a)
    /\ IF get_with_type_state(a, ty)
       THEN /\ mutref' = [some |-> TRUE, a |-> a, ty |-> ty, index |-> index]
            /\ ret' = [op |-> "Mut::new", r |-> Outcome("Ok", <<ty>>, <<ty>>, a, index)]
       ELSE /\ mutref' = NoMut
            /\ ret' = [op |-> "Mut::new", r |-> Outcome("Err", <<ty>>, <<ty>>, a, index)]
    /\ UNCHANGED <<notLookupVars, panicked>>

\* Archetype::get_value::<T>(index): the value read from the type's storage, if
\* the archetype has the type.
get_value(a, ty, index) ==
    IF has_type(a, ty) THEN Some(storage[a][ty][index + 1]) ELSE None

\* Bundle::get(archetype, index) for the bundle type b: every member is read
\* with get_value(...).unwrap(), which panics on None.
Bundle_get_result(b, a, index) ==
    IF \E k \in 1..Len(b) : ~get_value(a, b[k], index).some
    THEN Outcome("panic", <<>>, b, a, index)
    ELSE Outcome("Ok", [k \in 1..Len(b) |-> get_value(a, b[k], index).v], b, a, index)

\* Bundle::get(archetype, index), index being a row of the archetype.
Bundle_get(b, a, index) ==
    /\ Idle
    /\ index < len(a)
    /\ ret' = [op |-> "Bundle::get", r |-> Bundle_get_result(b, a, index)]
    /\ panicked' = (Bundle_get_result(b, a, index).tag = "panic")
    /\ UNCHANGED <<notLookupVars, mutref>>

NextBundle ==
    \/ \E b \in Bundles : Bundle_with_static_ids(b)
    \/ \E b \in Bundles : Bundle_static_type_info(b)
    \/ \E a \in Archetypes, ty \in Types, index \in 0..MaxRows : Mut_new(a, ty, index)
    \/ \E b \in Bundles, a \in Archetypes, index \in 0..MaxRows : Bundle_get(b, a, index)
    \/ Mut_drop

SpecBundle == InitBatch /\ [][NextBundle]_vars

\* The sequence s is in descending alignment and, within one alignment, in
\* ascending type id.
ByAlignThenId(s) ==
    \A k \in 1..(Len(s) - 1) :
        \/ align_of(s[k]) > align_of(s[k + 1])
        \/ align_of(s[k]) = align_of(s[k + 1]) /\ TypeId_of(s[k]) <= TypeId_of(s[k + 1])

\* C32: the TypeInfos of a bundle are sorted by descending alignment and then by
\* type id, which is the order of the id list with_static_ids gives for the
\* same bundle.
TypeInfoInIdOrder ==
    ret.op = "static_type_info" =>
        /\ ByAlignThenId(ret.r.v)
        /\ ret.r.v = with_static_ids(ret.r.b)

\* The lookup named by ret was made on an archetype that lacks one of the
\* types it asked for.
LookupMissed ==
    /\ ret.op \in {"Mut::new", "Bundle::get"}
    /\ \E k \in 1..Len(ret.r.b) : ~has_type(ret.r.a, ret.r.b[k])

\* C33: Mut::new and Bundle::get on an archetype that lacks a requested type
\* return MissingComponent naming a requested type the archetype lacks, and do
\* not end the program.
MissingIsReturned ==
    LookupMissed =>
        /\ ~panicked
        /\ ret.r.tag = "Err"
        /\ \E k \in 1..Len(ret.r.b) : ret.r.v = <<ret.r.b[k]>> /\ ~has_type(ret.r.a, ret.r.b[k])

\* ------------------------------------------------ resource access

\* The resource ids of the model.
ResourceIds == {"R1", "R2"}

\* The TypeAccess values over them: any immutable and any mutable set.
TypeAccesses == [immutable : SUBSET ResourceIds, mutable : SUBSET ResourceIds]

\* The longest bit set an ArchetypeAccess under comparison has.
MaxBits == 2

\* The ArchetypeAccess values set_access_for_query can build: two bit sets of
\* one length, every mutable bit also accessed.
ArchetypeAccesses ==
    UNION {{acc \in [accessed : [1..n -> BOOLEAN], mutable : [1..n -> BOOLEAN]] :
               \A k \in 1..n : acc.mutable[k] => acc.accessed[k]} : n \in 0..MaxBits}

\* HashSet::is_disjoint
HashSet_is_disjoint(x, y) == x \cap y = {}

\* The test without its last conjunct.
TypeAccess_is_compatible_one_way(x, y) ==
    /\ HashSet_is_disjoint(x.mutable, y.mutable)
    /\ HashSet_is_disjoint(x.mutable, y.immutable)

\* TypeAccess::is_compatible
TypeAccess_is_compatible(x, y) ==
    /\ HashSet_is_disjoint(x.mutable, y.mutable)
    /\ HashSet_is_disjoint(x.mutable, y.immutable)
    /\ HashSet_is_disjoint(x.immutable, y.mutable)

\* What the comparisons leave alone.
notRetVars == <<others, entities, storage, added_entities, mutated_entities, pending, mutref,
                location, dropped, panicked>>

\* The scheduler compares the resource access of two systems.
Compare_resource_access(x, y) ==
    /\ ret' = [op |-> "TypeAccess::is_compatible",
               r |-> [x |-> x, y |-> y, v |-> TypeAccess_is_compatible(x, y)]]
    /\ UNCHANGED notRetVars

\* The scheduler compares the archetype access of two systems.
Compare_archetype_access(x, y) ==
    /\ ret' = [op |-> "ArchetypeAccess::is_compatible",
               r |-> [x |-> x, y |-> y, v |-> ArchetypeAccess_is_compatible(x, y)]]
    /\ UNCHANGED notRetVars

NextCompare ==
    \/ \E x, y \in TypeAccesses : Compare_resource_access(x, y)
    \/ \E x, y \in ArchetypeAccesses : Compare_archetype_access(x, y)

SpecCompare == Init /\ [][NextCompare]_vars

\* C34: TypeAccess::is_compatible(A, B) is true iff A.mutable meets neither
\* B.mutable nor B.immutable and B.mutable does not meet A.immutable; it gives
\* the same answer with A and B exchanged, and so does
\* ArchetypeAccess::is_compatible.
TypeAccessCompatible ==
    /\ ret.op = "TypeAccess::is_compatible" =>
           /\ ret.r.v <=>
                  /\ (\A id \in ret.r.x.mutable :
                          id \notin ret.r.y.mutable /\ id \notin ret.r.y.immutable)
                  /\ (\A other \in ret.r.y.mutable : other \notin ret.r.x.immutable)
           /\ ret.r.v = TypeAccess_is_compatible(ret.r.y, ret.r.x)
    /\ ret.op = "ArchetypeAccess::is_compatible" =>
           ret.r.v = ArchetypeAccess_is_compatible(ret.r.y, ret.r.x)

\* Two resource accesses were found incompatible only because the second one
\* writes what the first one reads.
WriterAfterReader ==
    /\ ret.op = "TypeAccess::is_compatible"
    /\ ~ret.r.v
    /\ ret.r.x.mutable = {}
    /\ ret.r.x.immutable \cap ret.r.y.mutable # {}

\* ------------------------------------------------ dynamic systems

\* The most queries the settings of a dynamic system list.
MaxQueries == 2

\* DynamicSystemSettings.queries: a Vec of DynamicComponentQuery.
QueryLists == UNION {[1..n -> DynamicComponentQueries] : n \in 0..MaxQueries}

\* The queries of a dynamic system, as RuntimeQuery shapes.
Q_Queries(list) ==
    [k |-> "Queries", ty |-> "", qs |-> [i \in 1..Len(list) |-> Q_Dynamic(list[i])]]

\* for query in &self.settings.queries { set_access_for_stateful_query(world, query) }
RECURSIVE SetAccessAll(_, _, _, _)
SetAccessAll(acc, queries, n, bits) ==
    IF n = 0 THEN acc
    ELSE set_access_for_query(SetAccessAll(acc, queries, n - 1, bits), queries[n], bits)

\* The loop alone, on the access as it was left.
update_archetype_access_unclear(acc, queries, bits) ==
    SetAccessAll(acc, queries, Len(queries), bits)

\* DynamicSystem::update_archetype_access(world): clear, then the access of every
\* query in a world of the given number of archetypes.
update_archetype_access(acc, queries, bits) ==
    SetAccessAll(ArchetypeAccess_clear(acc), queries, Len(queries), bits)

\* DynamicSystem::new(name, state).settings(settings): a system with its list of
\* queries and an empty access, before any world has an archetype.
InitSystem ==
    /\ InitStorage
    /\ world_len = 0
    /\ access = [u \in Units |-> DefaultAccess]
    /\ \E list \in QueryLists :
           unit = [u \in Units |-> IF u = System THEN [NoUnit EXCEPT !.q = Q_Queries(list)]
                                   ELSE NoUnit]

\* The schedule goes on with another world, of n archetypes.
Schedule_other_world(n) ==
    /\ n # world_len
    /\ world_len' = n
    /\ UNCHANGED <<storageVars, ret, panicked, borrow, holder, access, unit>>

\* The schedule calls update_archetype_access(world) on the system.
DynamicSystem_update_archetype_access(u) ==
    /\ access' = [access EXCEPT ![u] = update_archetype_access(@, unit[u].q.qs, world_len)]
    /\ ret' = [op |-> "update_archetype_access", r |-> Some(world_len)]
    /\ UNCHANGED <<storageVars, panicked, borrow, holder, world_len, unit>>

NextSystem ==
    \/ World_new_archetype
    \/ \E n \in 0..Cardinality(AllArchetypes) : Schedule_other_world(n)
    \/ DynamicSystem_update_archetype_access(System)

SpecSystem == InitSystem /\ [][NextSystem]_vars

\* The queries of the system that get the access level in archetype i.
QueriesWith(i, levels) ==
    {n \in 1..Len(unit[System].q.qs) : Fetch_access(unit[System].q.qs[n], i) \in levels}

\* The access of the system was last computed for the world as it is.
Updated == ret.op = "update_archetype_access" /\ ret.r.v = world_len

\* C35: after update_archetype_access the accessed bit of archetype i is set iff
\* one of the system's queries has Read or Write access to it, and the mutable
\* bit iff one has Write access; no other bit is set, whatever the access was
\* before; a second call on the same world changes nothing; mutable is a subset
\* of accessed.
UpdateRecomputes ==
    Updated =>
        LET acc == access[System]
        IN /\ \A i \in 0..(world_len - 1) :
                  /\ contains(acc.accessed, i) <=> QueriesWith(i, {Read, Write}) # {}
                  /\ contains(acc.mutable, i) <=> QueriesWith(i, {Write}) # {}
           /\ OnesSet(acc.accessed) \subseteq 0..(world_len - 1)
           /\ OnesSet(acc.mutable) \subseteq OnesSet(acc.accessed)
           /\ update_archetype_access(acc, unit[System].q.qs, world_len) = acc

\* The access was computed in a world of three archetypes and again in one of
\* two: the bits of the third archetype, which one query reads, are gone, and
\* archetype 0 is accessed through one query and written through none.
StaleBitsGone ==
    /\ Updated
    /\ world_len = 2
    /\ Len(unit[System].q.qs) = 2
    /\ Len(access[System].accessed) = 3
    /\ OnesSet(access[System].accessed) = {0}
    /\ OnesSet(access[System].mutable) = {}
    /\ QueriesWith(2, {Read}) # {}
    /\ QueriesWith(0, {Read}) = {1}
    /\ QueriesWith(0, {Iterate}) = {2}

\* ------------------------------------------- batches against row by row

\* The items of the first n batches returned, one batch after the other.
RECURSIVE ConcatBatches(_)
ConcatBatches(n) == IF n = 0 THEN <<>> ELSE ConcatBatches(n - 1) \o batches[n].items

\* The batched iterator has returned None and every batch was run to its end.
AllBatchesDone ==
    /\ biter.on
    /\ biter.nones > 0
    /\ \A k \in 1..Len(batches) : batches[k].done

\* C36: for every batch size of at least one, world and query, the items of all
\* batches of the batched iterator, concatenated in the order the batches were
\* returned, are exactly the item sequence of the row-by-row QueryIter over the
\* same world and query: the same rows with the same items in the same order,
\* the rows skipped by change filters left out of both.
BatchesEqualRowByRow ==
    AllBatchesDone => ConcatBatches(Len(batches)) = Query_rows(biter.q, World)

\* Batches of one over archetypes of two rows and one row, one of the three
\* rows not mutated: three batches, two items, all consumed.
ThreeBatchesTwoItems ==
    /\ AllBatchesDone
    /\ biter.batch_size = 1
    /\ biter.q = Q_Mutated("Y")
    /\ len(0) = 2
    /\ len(1) = 1
    /\ Len(batches) = 3
    /\ Len(ConcatBatches(3)) = 2
    /\ Len(batches[2].items) = 0

\* ------------------------------------------------ any batch size at all

\* The number of batches recorded in one run: one more than a world of
\* MaxBatchRows rows has rows.
MaxBatches == MaxBatchRows + 1

\* One call of BatchedIter::next, while there is room to record its batch.
BatchedIterator_next_recorded ==
    /\ Len(batches) < MaxBatches
    /\ BatchedIterator_next

\* iter_batched / par_iter take any usize as batch_size, zero included.
NextBatchAny ==
    \/ \E q \in BatchQueries, batch_size \in 0..MaxBatchSize : Query_iter_batched(q, batch_size)
    \/ BatchedIterator_next_recorded
    \/ \E k \in 1..MaxBatches : Batch_next(k)

SpecBatchAny == InitBatch /\ [][NextBatchAny]_vars

\* The k-th batch returned starts after the one returned before it: in a later
\* archetype, or at a greater offset of the same one.
StartsAfter(k) ==
    \/ batches[k - 1].a < batches[k].a
    \/ batches[k - 1].a = batches[k].a /\ batches[k - 1].offset < batches[k].offset

\* C37: batched iteration terminates for every batch size, zero included: what
\* next returns depends only on the iterator's position in the finite world,
\* so it returns None after finitely many batches exactly if every batch it
\* returns starts after the one before it, at a row of its archetype.
BatchedIterTerminates ==
    \A k \in 1..Len(batches) :
        /\ batches[k].a \in Archetypes
        /\ batches[k].offset < len(batches[k].a)
        /\ k > 1 => StartsAfter(k)

\* ------------------------------------------------- the length announced

\* ExactSizeIterator::len of a QueryIter: the rows of the first n archetypes of
\* the world w to which the query q has an access, summed.
RECURSIVE QueryIter_len(_, _, _)
QueryIter_len(q, w, n) ==
    IF n = 0 THEN 0
    ELSE QueryIter_len(q, w, n - 1)
             + (IF Fetch_access(q, n - 1) # NoAccess THEN Len(w.entities[n - 1]) ELSE 0)

\* QueryIter::size_hint: (n, Some(n)) with n = self.len().
QueryIter_size_hint(q, w) ==
    LET n == QueryIter_len(q, w, Cardinality(DOMAIN w.entities))
    IN  <<n, Some(n)>>

\* A QueryIter was created and next was not called yet.
Fresh == qiter.on /\ qiter.it = NewQueryIter /\ yielded = <<>>

\* C38: for a freshly created QueryIter, len() and both ends of size_hint() are
\* the number of items the iterator yields when run until None, for every query
\* shape, change filters and Or included.
LenIsExact ==
    Fresh =>
        LET n == Len(Collect(qiter.q, World, qiter.it))
        IN  QueryIter_size_hint(qiter.q, World) = <<n, Some(n)>>

\* --------------------------------------------- access against get

\* The query shapes probed: the shapes a caller iterates and every dynamic one.
FetchShapes == IterQueries \cup {Q_Dynamic(state) : state \in DynamicComponentQueries}

\* QueryBorrow's walk over the archetypes for one of them: Fetch::access, as
\* borrow and the conflict analysis ask it, and Fetch::get, as the iterators do.
Fetch_access_and_get(q, a) ==
    /\ ret' = [op |-> "Fetch::access/get",
               r |-> [q |-> q, a |-> a, access |-> Fetch_access(q, a), get |-> Fetch_get(q, a)]]
    /\ UNCHANGED notRetVars

NextFetch == \E q \in FetchShapes, a \in AllArchetypes : Fetch_access_and_get(q, a)

SpecFetch == Init /\ [][NextFetch]_vars

\* C39: for every query shape and every archetype, Fetch::access is None if
\* and only if Fetch::get is None: the archetypes that conflict analysis and
\* borrow acquisition count are exactly the archetypes iterated.
AccessNoneIffGetNone ==
    ret.op = "Fetch::access/get" => (ret.r.access = NoAccess <=> ~ret.r.get)

\* ------------------------------------------------- clearing an archetype

\* VecComponentStorage::clear on ty's storage of archetype a: Vec::clear drops
\* every value, first to last.
VecComponentStorage_clear_drops(a, ty) ==
    [k \in 1..Len(storage[a][ty]) |-> [ty |-> ty, v |-> storage[a][ty][k]]]

\* Archetype::clear: every storage is cleared, then the entity list.
Archetype_clear(a) ==
    /\ Idle
    /\ storage' = [storage EXCEPT ![a] = [ty \in TypesOf(a) |-> <<>>]]
    /\ dropped' = Concat([k \in 1..Len(type_info[a]) |->
                             VecComponentStorage_clear_drops(a, type_info[a][k])],
                         Len(type_info[a]))
    /\ entities' = [entities EXCEPT ![a] = <<>>]
    /\ ret' = [op |-> "clear", r |-> None]
    /\ location' = NoLocation
    /\ UNCHANGED <<others, added_entities, mutated_entities, pending, mutref, panicked>>

NextClear ==
    \/ Next
    \/ \E a \in Archetypes : Archetype_clear(a)

SpecClear == Init /\ [][NextClear]_vars

\* C40: after clear the archetype is empty and still row-aligned: the entity
\* list, every component storage and every added and mutated flag array of it
\* have length 0, so that the next allocate builds row 0 with flag arrays of
\* length 1.
ClearEmptiesAll ==
    [][\A a \in Archetypes :
          Archetype_clear(a) =>
              /\ Len(entities'[a]) = 0
              /\ \A ty \in TypesOf(a) :
                     /\ Len(storage'[a][ty]) = 0
                     /\ Len(added_entities'[a][ty]) = 0
                     /\ Len(mutated_entities'[a][ty]) = 0]_vars

====
